---- MODULE Spec2Model ----
(***************************************************************************)
(* A model of the reveal.js markdown plugin plugin/awesoMD/plugin.js.      *)
(*                                                                         *)
(* A text is a sequence of one-character strings; the plugin's regular     *)
(* expressions and string methods are operators over such sequences that   *)
(* match what the JavaScript does character by character.                  *)
(***************************************************************************)
EXTENDS Integers, Sequences, FiniteSets, TLC

VARIABLES
    sepIn,      \* addSlideSeparator: the markdown first passed in
    sepOut,     \* addSlideSeparator: the results of the successive calls
    yamlRegexLastIndex, \* yamlRegex.lastIndex, shared by every call
    metaOp,     \* the metadata function called, "none" before the call
    metaArg,    \* its arguments [markdown, options]
    metaRet,    \* what it returned [markdown, options, threw, called]
    markdownConfig, \* deck.getConfig().markdown, the host-level configuration
    fmOp,       \* "parseFrontMatter" once it has been called, "none" before
    fmArg,      \* its arguments [lead, block, body, options]: the content is
                \* the three texts one after the other
    fmRet,      \* what it returned [content, options, threw]
    alertOp,    \* the alert function called, "none" before the call
    alertArg,   \* the content it is called with, in parts [lead, first,
                \* messages]: a text, then a block of a first line and
                \* message lines
    alertRet,   \* what renderMarkdownAlerts returned [rendered, text, nodes,
                \* threw]
    alertBlocks, \* what splitSlideContentIntoBlocks returned
    templateStatus, \* the status of the request for a slide's template
    slidifyPc,  \* where the call of slidify stands: "none", "called",
                \* "matching" (the while loop), "flattening" (the for loop),
                \* "returned", "threw"
    slidifyArgs, \* its arguments [markdown, options]
    slidifyParsed, \* [content, options, threw]: markdown and options as
                \* parseFrontMatter returned them
    slidifyLastIndex, \* lastIndex
    slidifyWasHorizontal, \* wasHorizontal
    slidifyStack, \* sectionStack
    slidifyI,   \* i of the for loop, one-based
    slidifyJ,   \* the element of sectionStack[i] the forEach is at, 0 outside
    slidifySlideOptions, \* slideOptions
    slidifySections, \* markdownSections, and the value returned
    slidifyCalled, \* the functions called so far, in order
    slidifyMatches, \* the texts separatorRegex.exec matched so far
    slidifySlides, \* the [content, options] createMarkdownSlide was given
    slideOp,    \* createMarkdownSlide or getSlidifyOptions, once it was called
                \* on its own
    slideArg,   \* its content and options
    slideRet,   \* what it returned
    procPc,     \* where init stands: "none", "init" (before processSlides),
                \* "waiting" (for the promise of processSlides), "resolved",
                \* "converted" (convertSlides ran)
    procSections, \* the sections with an external document, in document
                \* order: [url, responseText, attributes, sendThrows, request,
                \* status, promise, outerHTML]
    procJobs,   \* the promise reactions waiting to run, first in first out
    procAll,    \* the promise of Promise.all: "pending", "fulfilled",
                \* "rejected"
    procSeen,   \* the outerHTML of the sections when convertSlides ran
    alertBlockRegexLastIndex, \* alertBlockRegex.lastIndex, shared by every call
    callsLog    \* the calls made one after another on one plugin:
                \* [op, text, options, ret]

sepVars == <<sepIn, sepOut>>
metaVars == <<yamlRegexLastIndex, metaOp, metaArg, metaRet>>
fmVars == <<fmOp, fmArg, fmRet>>
alertVars == <<alertOp, alertArg, alertRet, alertBlocks>>
slidifyVars ==
    <<templateStatus, slidifyPc, slidifyArgs, slidifyParsed, slidifyLastIndex,
      slidifyWasHorizontal, slidifyStack, slidifyI, slidifyJ, slidifySlideOptions,
      slidifySections, slidifyCalled, slidifyMatches, slidifySlides>>
slideVars == <<slideOp, slideArg, slideRet>>
procVars == <<procPc, procSections, procJobs, procAll, procSeen>>
callVars == <<alertBlockRegexLastIndex, callsLog>>
vars ==
    <<sepVars, metaVars, markdownConfig, fmVars, alertVars, slidifyVars, slideVars,
      procVars, callVars>>

\* what the calls of one function leave alone
exceptSep ==
    <<metaVars, markdownConfig, fmVars, alertVars, slidifyVars, slideVars, procVars,
      callVars>>
exceptMeta ==
    <<sepVars, markdownConfig, fmVars, alertVars, slidifyVars, slideVars, procVars,
      callVars>>
exceptFm ==
    <<sepVars, metaVars, markdownConfig, alertVars, slidifyVars, slideVars, procVars,
      callVars>>
exceptAlert ==
    <<sepVars, metaVars, markdownConfig, fmVars, slidifyVars, slideVars, procVars,
      callVars>>
exceptSlidify ==
    <<sepVars, metaOp, metaArg, metaRet, markdownConfig, fmVars, alertVars,
      templateStatus, slidifyArgs, slideVars, procVars, callVars>>
exceptSlide ==
    <<sepVars, metaVars, markdownConfig, fmVars, alertVars, slidifyPc, slidifyArgs,
      slidifyParsed, slidifyLastIndex, slidifyWasHorizontal, slidifyStack, slidifyI,
      slidifyJ, slidifySlideOptions, slidifySections, slidifyCalled, slidifyMatches,
      slidifySlides, procVars, callVars>>
exceptProc ==
    <<sepVars, metaOp, metaArg, metaRet, markdownConfig, fmVars, alertVars, slidifyVars,
      slideVars, callVars>>
exceptCalls ==
    <<sepVars, metaOp, metaArg, metaRet, markdownConfig, fmVars, alertVars, slidifyVars,
      slideVars, procVars>>

-----------------------------------------------------------------------------
(* Characters and strings *)

LF == "\n"
CR == "\r"
TAB == "\t"

\* JavaScript's \s, over the characters the model uses
IsSpace(c) == c \in {" ", LF, CR, TAB}

Last(s) == s[Len(s)]

\* JavaScript's \w
WordChars ==
    { "a", "b", "c", "d", "e", "f", "g", "h", "i", "j", "k", "l", "m",
      "n", "o", "p", "q", "r", "s", "t", "u", "v", "w", "x", "y", "z",
      "A", "B", "C", "D", "E", "F", "G", "H", "I", "J", "K", "L", "M",
      "N", "O", "P", "Q", "R", "S", "T", "U", "V", "W", "X", "Y", "Z",
      "0", "1", "2", "3", "4", "5", "6", "7", "8", "9", "_" }

IsWord(c) == c \in WordChars

\* the characters at which ^ and $ of a multi-line pattern match and which
\* the dot does not match
IsLineTerminator(c) == c \in {LF, CR}

\* String.prototype.substring(from, to), zero-based as in JavaScript
Substring(s, from, to) == SubSeq(s, from + 1, to)

\* whether the literal lit stands in s at the one-based position p
LiteralAt(s, p, lit) ==
    /\ p >= 1
    /\ p + Len(lit) - 1 <= Len(s)
    /\ \A k \in 1..Len(lit) : s[p + k - 1] = lit[k]

\* the first one-based position >= from where lit stands in s, 0 if none
IndexOfFrom(s, lit, from) ==
    LET hits == { p \in from..(Len(s) - Len(lit) + 1) : LiteralAt(s, p, lit) }
    IN  IF hits = {} THEN 0 ELSE CHOOSE p \in hits : \A q \in hits : p <= q

\* the length of the longest run of characters of the set cs starting at p
RunLength(s, p, cs) ==
    IF p < 1 THEN 0
    ELSE Cardinality({ q \in p..Len(s) : \A r \in p..q : s[r] \in cs })

\* the length of the longest run of characters outside the set cs starting at p
RunLengthExcept(s, p, cs) ==
    IF p < 1 THEN 0
    ELSE Cardinality({ q \in p..Len(s) : \A r \in p..q : s[r] \notin cs })

\* String.prototype.trim()
TrimStart(s) ==
    SubSeq(s, 1 + Cardinality({ q \in 1..Len(s) : \A r \in 1..q : IsSpace(s[r]) }),
           Len(s))

TrimEnd(s) ==
    SubSeq(s, 1,
           Len(s) - Cardinality({ q \in 1..Len(s) : \A r \in q..Len(s) : IsSpace(s[r]) }))

Trim(s) == TrimEnd(TrimStart(s))

\* String.prototype.split(sep) for a one-character separator
\* the pieces of s from position i on, one step per separator
RECURSIVE SplitFrom(_, _, _)
SplitAt(s, sep, i, at) ==
    IF at = 0 THEN <<SubSeq(s, i, Len(s))>>
    ELSE <<SubSeq(s, i, at - 1)>> \o SplitFrom(s, sep, at + 1)

SplitFrom(s, sep, i) == SplitAt(s, sep, i, IndexOfFrom(s, <<sep>>, i))

Split(s, sep) == SplitFrom(s, sep, 1)

\* Array.prototype.join(sep) for a one-character separator
RECURSIVE Join(_, _)
Join(parts, sep) ==
    IF Len(parts) = 0 THEN <<>>
    ELSE IF Len(parts) = 1 THEN parts[1]
    ELSE parts[1] \o <<sep>> \o Join(Tail(parts), sep)

-----------------------------------------------------------------------------
(* addSlideSeparator *)

\* options.slideSeparator as slidify sets it
slideSeparator == <<"-", "-", "-">>

\* a heading pattern without the upper limit on the number of '#'
IsHeadingLineUnlimited(line) ==
    \E n \in 1..Len(line) :
        /\ Len(line) > n
        /\ \A k \in 1..n : line[k] = "#"
        /\ IsSpace(line[n + 1])

\* line.match(/^#{1,6}\s+/)
IsHeadingLine(line) ==
    \E n \in 1..6 :
        /\ Len(line) > n
        /\ \A k \in 1..n : line[k] = "#"
        /\ IsSpace(line[n + 1])

\* the forEach over the lines; done is firstHeadingProcessingDone
RECURSIVE addSlideSeparatorLines(_, _, _, _)
addSlideSeparatorLines(lines, index, done, separator) ==
    IF index > Len(lines) THEN <<>>
    ELSE LET line == lines[index]
             heading == IsHeadingLine(line)
             previousLine == IF index > 1 THEN lines[index - 1] ELSE <<>>
             insert == heading /\ done /\ previousLine # separator
         IN  (IF insert THEN <<separator>> ELSE <<>>)
                 \o <<line>>
                 \o addSlideSeparatorLines(lines, index + 1, done \/ heading, separator)

addSlideSeparator(markdown, separator) ==
    Join(addSlideSeparatorLines(Split(markdown, LF), 1, FALSE, separator), LF)

-----------------------------------------------------------------------------
(* Metadata: values, records and the merge *)

\* a JavaScript value held under a metadata key: its type and its text
StringValue(text) == [type |-> "string", text |-> text]
BooleanValue(text) == [type |-> "boolean", text |-> text]
NumberValue(text) == [type |-> "number", text |-> text]
NullValue == [type |-> "null", text |-> <<>>]

\* options.metadata: undefined, or an object from keys to values
UndefinedMetadata == [defined |-> FALSE, map |-> <<>>]
Metadata(map) == [defined |-> TRUE, map |-> map]

\* { ...a, ...b } of two key-value maps
Spread(a, b) ==
    [k \in (DOMAIN a) \cup (DOMAIN b) |-> IF k \in DOMAIN b THEN b[k] ELSE a[k]]

\* { ...options.metadata, ...extracted }: spreading undefined adds nothing
SpreadMetadata(metadata, extracted) ==
    Metadata(Spread(IF metadata.defined THEN metadata.map ELSE <<>>, extracted))

slide == <<"s", "l", "i", "d", "e">>

\* JavaScript's truthiness of a metadata value
Truthy(v) ==
    CASE v.type = "string" -> v.text # <<>>
      [] v.type = "boolean" -> v.text = <<"t", "r", "u", "e">>
      [] v.type = "number" -> v.text # <<"0">>
      [] OTHER -> FALSE

\* 'class=' + (options.metadata.slide || '')
ClassAttribute(metadata) ==
    <<"c", "l", "a", "s", "s", "=">>
        \o (IF slide \in DOMAIN metadata.map /\ Truthy(metadata.map[slide])
            THEN metadata.map[slide].text ELSE <<>>)

-----------------------------------------------------------------------------
(* extractInlineMetadata *)

\* the one-based position of the last character of the line that holds
\* position p (p - 1 when the line is empty at p)
LineEnd(s, p) == p - 1 + RunLengthExcept(s, p, {LF, CR})

\* whether ::\w+: *\w stands at position q
TagStartAt(s, q) ==
    /\ LiteralAt(s, q, <<":", ":">>)
    /\ LET n == RunLength(s, q + 2, WordChars)
           c == q + 2 + n
       IN  /\ n >= 1
           /\ c <= Len(s) /\ s[c] = ":"
           /\ LET v == c + 1 + RunLength(s, c + 1, {" "})
              IN  v <= Len(s) /\ IsWord(s[v])

\* whether /^#+\s.*::\w+: *\w+.*$/m matches starting at position p
HeadingWithMetadataAt(s, p) ==
    /\ p = 1 \/ IsLineTerminator(s[p - 1])
    /\ LET h == RunLength(s, p, {"#"})
       IN  /\ h >= 1
           /\ p + h <= Len(s) /\ IsSpace(s[p + h])
           /\ \E q \in (p + h + 1)..LineEnd(s, p + h + 1) : TagStartAt(s, q)

\* markdown.match(headingWithMetadataRegex): the matched text, or no match
headingWithMetadataRegex(s) ==
    LET hits == { p \in 1..Len(s) : HeadingWithMetadataAt(s, p) }
    IN  IF hits = {} THEN [found |-> FALSE, text |-> <<>>]
        ELSE LET p == CHOOSE x \in hits : \A y \in hits : x <= y
                 h == RunLength(s, p, {"#"})
             IN  [found |-> TRUE, text |-> SubSeq(s, p, LineEnd(s, p + h + 1))]

\* line.match(/::(\w+):([^::\n]*)/g): the matches from left to right, each
\* already cut into the key and the value that replace('::', '').split(':') gives
RECURSIVE metadataRegex(_, _)
metadataRegex(s, i) ==
    IF i > Len(s) THEN <<>>
    ELSE LET n == RunLength(s, i + 2, WordChars)
             c == i + 2 + n
             hit == /\ LiteralAt(s, i, <<":", ":">>)
                    /\ n >= 1
                    /\ c <= Len(s) /\ s[c] = ":"
             m == RunLengthExcept(s, c + 1, {":", LF})
         IN  IF hit
             THEN <<[key |-> SubSeq(s, i + 2, c - 1), value |-> SubSeq(s, c + 1, c + m)]>>
                      \o metadataRegex(s, c + m + 1)
             ELSE metadataRegex(s, i + 1)

\* whether new RegExp accepts the value as pattern source; of the characters
\* the model's tag values are made of only an opening parenthesis, which opens
\* a group that is never closed, is rejected (SyntaxError)
RegExpCompiles(value) == \A k \in 1..Len(value) : value[k] # "("

\* whether /::\bkey\b:\s*value/ matches at position p, and where it ends
\* (0 when it does not match); the value's characters match themselves
MetadataPatternEnd(s, p, key, value) ==
    LET head == <<":", ":">> \o key \o <<":">>
        from == p + Len(head)
        gaps == { g \in 0..RunLength(s, from, {" ", LF, CR, TAB}) :
                    LiteralAt(s, from + g, value) }
    IN  IF LiteralAt(s, p, head) /\ gaps # {}
        THEN from + (CHOOSE g \in gaps : \A x \in gaps : g >= x) + Len(value) - 1
        ELSE 0

\* markdown.replace(metadataPattern, ''), metadataPattern being the RegExp
\* built from '::\b' + key + '\b:\s*' + value
RemoveMetadataPattern(s, key, value) ==
    LET hits == { p \in 1..Len(s) : MetadataPatternEnd(s, p, key, value) # 0 }
    IN  IF hits = {} THEN s
        ELSE LET p == CHOOSE x \in hits : \A y \in hits : x <= y
             IN  SubSeq(s, 1, p - 1) \o SubSeq(s, MetadataPatternEnd(s, p, key, value) + 1, Len(s))

\* the forEach over the matches: the metadata read so far, the markdown with
\* the matched tags removed, and whether building a pattern threw
RECURSIVE InlineMetadataLoop(_, _, _, _)
InlineMetadataLoop(matches, i, markdown, inlineMetadata) ==
    IF i > Len(matches)
    THEN [markdown |-> markdown, inlineMetadata |-> inlineMetadata, threw |-> FALSE]
    ELSE LET key == Trim(matches[i].key)
             value == Trim(matches[i].value)
             assigned == Spread(inlineMetadata, (key :> StringValue(value)))
         IN  IF ~RegExpCompiles(value)
             THEN [markdown |-> markdown, inlineMetadata |-> assigned, threw |-> TRUE]
             ELSE InlineMetadataLoop(matches, i + 1,
                                     RemoveMetadataPattern(markdown, key, value), assigned)

\* the function's result, whether it threw, and the record of the call
extractInlineMetadata(markdown, options) ==
    LET matches == headingWithMetadataRegex(markdown)
        loop == IF matches.found
                THEN InlineMetadataLoop(metadataRegex(matches.text, 1), 1, markdown, <<>>)
                ELSE [markdown |-> markdown, inlineMetadata |-> <<>>, threw |-> FALSE]
        metadata == SpreadMetadata(options.metadata, loop.inlineMetadata)
    IN  IF loop.threw
        THEN [markdown |-> markdown, options |-> options, threw |-> TRUE,
              called |-> <<"extractInlineMetadata">>]
        ELSE [markdown |-> loop.markdown,
              options |-> [options EXCEPT !.metadata = metadata,
                                          !.attributes = ClassAttribute(metadata)],
              threw |-> FALSE, called |-> <<"extractInlineMetadata">>]

-----------------------------------------------------------------------------
(* extractYAMLMetadata *)

\* the backquote character (the name stands for it: a backquote cannot be
\* written in a string of the module)
Backquote == "backquote"

\* the three backquotes of a code fence
fence == <<Backquote, Backquote, Backquote>>

\* where the match of yamlRegex, fence (yaml|yml) \n ([\s\S]*?) fence
\* (\n[\s\S]*)?, that starts at position p has its body and its closing
\* fence (open = 0: no match)
YamlFenceAt(s, p) ==
    LET open == IF LiteralAt(s, p, fence \o <<"y", "a", "m", "l", LF>>) THEN p + 8
                ELSE IF LiteralAt(s, p, fence \o <<"y", "m", "l", LF>>) THEN p + 7
                ELSE 0
        close == IF open = 0 THEN 0 ELSE IndexOfFrom(s, fence, open)
    IN  [open |-> IF close = 0 THEN 0 ELSE open, close |-> close]

\* yamlRegex.exec(s) with the pattern's lastIndex as it stands: the groups
\* 2 (the body) and 3 (the line break after the closing fence and all that
\* follows, when there is one), and the lastIndex the call leaves
yamlRegexExec(s, lastIndex) ==
    LET hits == { p \in (lastIndex + 1)..Len(s) : YamlFenceAt(s, p).open # 0 }
    IN  IF hits = {}
        THEN [found |-> FALSE, body |-> <<>>, hasRest |-> FALSE, rest |-> <<>>,
              lastIndex |-> 0]
        ELSE LET p == CHOOSE x \in hits : \A y \in hits : x <= y
                 at == YamlFenceAt(s, p)
                 after == at.close + 3
                 hasRest == after <= Len(s) /\ s[after] = LF
             IN  [found |-> TRUE,
                  body |-> SubSeq(s, at.open, at.close - 1),
                  hasRest |-> hasRest,
                  rest |-> IF hasRest THEN SubSeq(s, after, Len(s)) ELSE <<>>,
                  lastIndex |-> IF hasRest THEN Len(s) ELSE after - 1]

\* js-yaml's resolution of a plain scalar to a type
YamlScalar(text) ==
    IF text \in { <<"t", "r", "u", "e">>, <<"f", "a", "l", "s", "e">> }
    THEN BooleanValue(text)
    ELSE IF text \in { <<>>, <<"~">>, <<"n", "u", "l", "l">> } THEN NullValue
    ELSE IF \A k \in 1..Len(text) : text[k] \in {"0", "1", "2", "3", "4", "5", "6", "7", "8", "9"}
    THEN NumberValue(text)
    ELSE StringValue(text)

\* a line of a block mapping: a key of word characters, a colon, and either
\* the end of the line or a space and a plain scalar that holds no ": "
YamlIsEntry(line) ==
    LET n == RunLength(line, 1, WordChars)
    IN  /\ n >= 1
        /\ n < Len(line) /\ line[n + 1] = ":"
        /\ n + 1 = Len(line) \/ line[n + 2] = " "
        /\ \A k \in (n + 2)..(Len(line) - 1) : ~(line[k] = ":" /\ line[k + 1] = " ")
        /\ line[Len(line)] # ":" \/ n + 1 = Len(line)

YamlEntryKey(line) == SubSeq(line, 1, RunLength(line, 1, WordChars))

YamlEntryValue(line) ==
    YamlScalar(Trim(SubSeq(line, RunLength(line, 1, WordChars) + 2, Len(line))))

\* a line that is a plain scalar on its own: it starts with a word character
\* and holds no colon
YamlIsPlain(line) ==
    /\ line # <<>> /\ IsWord(line[1])
    /\ \A k \in 1..Len(line) : line[k] # ":"

\* yaml.load(text), for the documents the model hands it: lines of a block
\* mapping, plain scalar lines, comments and blank lines. The result is
\* undefined (nothing but blank lines and comments), a mapping, a scalar,
\* or a YAMLException.
YamlLoad(text) ==
    LET lines == Split(text, LF)
        content == SelectSeq(lines, LAMBDA l : Trim(l) # <<>> /\ Head(TrimStart(l)) # "#")
        keys == { YamlEntryKey(content[i]) : i \in 1..Len(content) }
    IN  IF content = <<>> THEN [kind |-> "undefined"]
        ELSE IF /\ \A i \in 1..Len(content) : YamlIsEntry(content[i])
                /\ Cardinality(keys) = Len(content)
        THEN [kind |-> "mapping",
              map |-> [k \in keys |->
                          YamlEntryValue(content[CHOOSE i \in 1..Len(content) :
                                                    YamlEntryKey(content[i]) = k])]]
        ELSE IF \A i \in 1..Len(content) : YamlIsPlain(content[i])
        THEN [kind |-> "scalar",
              value |-> YamlScalar(Join([i \in 1..Len(content) |-> Trim(content[i])], " "))]
        ELSE [kind |-> "exception"]

\* error.message of the Error the function itself throws
InvalidInlineMetadata ==
    <<"T", "h", "e", " ", "i", "n", "l", "i", "n", "e", " ", "m", "e", "t", "a",
      "d", "a", "t", "a", " ", "i", "s", " ", "n", "o", "t", " ", "v", "a", "l",
      "i", "d", ".">>

\* error.message of js-yaml's YAMLException, whose wording is not modelled
YamlExceptionMessage == <<"Y", "A", "M", "L", "E", "x", "c", "e", "p", "t", "i", "o", "n">>

\* the decimal digits of an array index below 100
Digit(d) == <<"0", "1", "2", "3", "4", "5", "6", "7", "8", "9">>[d + 1]
IndexKey(i) == IF i < 10 THEN <<Digit(i)>> ELSE <<Digit(i \div 10), Digit(i % 10)>>

\* the own enumerable properties { ...value } copies: the entries of a
\* mapping, the indexed characters of a string, nothing of another scalar
SpreadOf(loaded) ==
    IF loaded.kind = "mapping" THEN loaded.map
    ELSE IF loaded.kind = "scalar" /\ loaded.value.type = "string"
    THEN [k \in { IndexKey(i - 1) : i \in 1..Len(loaded.value.text) } |->
              StringValue(<<loaded.value.text[
                  CHOOSE i \in 1..Len(loaded.value.text) : IndexKey(i - 1) = k]>>)]
    ELSE <<>>

\* a variant that leaves the scan position where the exec or test left it
YamlRegexKept(lastIndex) == lastIndex

\* yamlRegex.lastIndex = 0, lines 600 and 655
YamlRegexReset(lastIndex) == 0

\* the function's result and the record of the call; an exception of
\* yaml.load is caught, its message becomes the markdown
extractYAMLMetadata(markdown, options, lastIndex) ==
    LET markdownParts == yamlRegexExec(markdown, lastIndex)
        loaded == YamlLoad(markdownParts.body)
        metadata == SpreadMetadata(options.metadata, SpreadOf(loaded))
    IN  [markdown |->
             IF ~(markdownParts.found /\ markdownParts.body # <<>>) THEN markdown
             ELSE IF loaded.kind = "exception" THEN YamlExceptionMessage
             ELSE IF loaded.kind = "undefined" THEN InvalidInlineMetadata
             ELSE markdownParts.rest,
         options |->
             IF /\ markdownParts.found /\ markdownParts.body # <<>>
                /\ loaded.kind \notin {"exception", "undefined"}
             THEN [options EXCEPT !.metadata = metadata,
                                  !.attributes = ClassAttribute(metadata)]
             ELSE options,
         threw |-> FALSE,
         called |-> <<"extractYAMLMetadata">>]

-----------------------------------------------------------------------------
(* separateInlineMetadataAndMarkdown *)

\* a variant that tries the fenced block before the tagged heading line
separateInlineMetadataAndMarkdownYamlFirst(markdown, options, lastIndex) ==
    LET yamlMetadata == yamlRegexExec(markdown, lastIndex).found
        newMetadata == headingWithMetadataRegex(markdown).found
    IN  IF options.separateByHeading \/ (newMetadata /\ ~yamlMetadata)
        THEN extractInlineMetadata(markdown, options)
        ELSE IF yamlMetadata THEN extractYAMLMetadata(markdown, options, 0)
        ELSE [markdown |-> markdown,
              options |-> IF options.metadata.defined
                          THEN [options EXCEPT !.attributes = ClassAttribute(options.metadata)]
                          ELSE options,
              threw |-> FALSE, called |-> <<>>]

\* the function's result and the record of which extraction function it
\* called; yamlRegex.test starts at the lastIndex the pattern holds, and the
\* two branches that call extractInlineMetadata are taken as one
separateInlineMetadataAndMarkdown(markdown, options, lastIndex) ==
    LET yamlMetadata == yamlRegexExec(markdown, lastIndex).found
        newMetadata == headingWithMetadataRegex(markdown).found
    IN  IF options.separateByHeading \/ newMetadata
        THEN extractInlineMetadata(markdown, options)
        ELSE IF yamlMetadata
        THEN extractYAMLMetadata(markdown, options,
                                 YamlRegexReset(yamlRegexExec(markdown, lastIndex).lastIndex))
        ELSE [markdown |-> markdown,
              options |-> IF options.metadata.defined
                          THEN [options EXCEPT !.attributes = ClassAttribute(options.metadata)]
                          ELSE options,
              threw |-> FALSE, called |-> <<>>]

-----------------------------------------------------------------------------
(* getSlidifyOptions *)

\* The source text of a pattern option; the empty string stands for every
\* value the code's || and ?: take as absent (undefined, null, '').
DEFAULT_SLIDE_SEPARATOR == "\\r?\\n---\\r?\\n"
DEFAULT_VERTICAL_SEPARATOR == ""
DEFAULT_NOTES_SEPARATOR == "^s*notes?:"

\* a || b || c over pattern sources
FirstGiven(a, b, c) == IF a # "" THEN a ELSE IF b # "" THEN b ELSE c

\* deck.getConfig().markdown when the host configures nothing
NoConfig ==
    [separator |-> "", verticalSeparator |-> "", notesSeparator |-> "",
     separateByHeading |-> FALSE]

\* options || {}: an options object that gives nothing. separateByHeading
\* and hasDataSeparator are FALSE when absent (the code only tests them for
\* truth), attributes and slideSeparator are empty when absent.
NoOptions ==
    [separator |-> "", verticalSeparator |-> "", notesSeparator |-> "",
     separateByHeading |-> FALSE, attributes |-> <<>>,
     metadata |-> UndefinedMetadata, hasDataSeparator |-> FALSE,
     slideSeparator |-> <<>>]

getSlidifyOptions(options, config) ==
    [options EXCEPT
        !.separator = FirstGiven(@, config.separator, DEFAULT_SLIDE_SEPARATOR),
        !.verticalSeparator =
            FirstGiven(@, config.verticalSeparator, DEFAULT_VERTICAL_SEPARATOR),
        !.notesSeparator =
            FirstGiven(@, config.notesSeparator, DEFAULT_NOTES_SEPARATOR),
        !.separateByHeading = @ \/ config.separateByHeading]

-----------------------------------------------------------------------------
(* parseFrontMatter, and the front-matter package it calls *)

\* The package's pattern, under the m flag:
\*   ^(\ufeff?(= yaml =|---)$([\s\S]*?)^(?:\2|\.\.\.)\s*$(?:\n)?)
\* (the optional byte order mark is left out: no text of the model has one)
FmMarkers == { <<"-", "-", "-">>, <<"=", " ", "y", "a", "m", "l", " ", "=">> }

FmAtLineStart(s, p) == p = 1 \/ (p - 1 <= Len(s) /\ IsLineTerminator(s[p - 1]))

FmAtLineEnd(s, p) == p > Len(s) \/ IsLineTerminator(s[p])

\* ^(= yaml =|---)$ at position p
FmOpenAt(s, p, marker) ==
    /\ FmAtLineStart(s, p)
    /\ LiteralAt(s, p, marker)
    /\ FmAtLineEnd(s, p + Len(marker))

\* ^(?:\2|\.\.\.)\s*$(?:\n)? at position q: the position of the last character
\* matched, 0 when there is no match. The greedy \s* gives back until $ holds,
\* so it stops before the last line terminator of the white space that
\* follows the marker, and (?:\n)? takes that line feed.
FmCloseEnd(s, q, marker) ==
    LET lits == { l \in {marker, <<".", ".", ".">>} : LiteralAt(s, q, l) }
        e == q + Len(CHOOSE l \in lits : TRUE)
        ks == { k \in 0..RunLength(s, e, {" ", LF, CR, TAB}) : FmAtLineEnd(s, e + k) }
        k == CHOOSE x \in ks : \A y \in ks : y <= x
    IN  IF q <= 1 \/ ~FmAtLineStart(s, q) \/ lits = {} \/ ks = {} THEN 0
        ELSE IF e + k <= Len(s) /\ s[e + k] = LF THEN e + k
        ELSE e + k - 1

\* the lazy [\s\S]*? : the first position after the opening marker where the
\* closing part matches (0: nowhere)
FmCloseAt(s, p, marker) ==
    LET qs == { q \in (p + Len(marker) + 1)..Len(s) : FmCloseEnd(s, q, marker) # 0 }
    IN  IF qs = {} THEN 0 ELSE CHOOSE q \in qs : \A r \in qs : q <= r

\* regex.exec(string): the leftmost match, its text and its third group
FmRegexExec(s) ==
    LET hits == { h \in (1..Len(s)) \X FmMarkers :
                    FmOpenAt(s, h[1], h[2]) /\ FmCloseAt(s, h[1], h[2]) # 0 }
        h == CHOOSE x \in hits : \A y \in hits : x[1] <= y[1]
        q == FmCloseAt(s, h[1], h[2])
    IN  IF hits = {} THEN [found |-> FALSE, text |-> <<>>, yaml |-> <<>>]
        ELSE [found |-> TRUE,
              text |-> SubSeq(s, h[1], FmCloseEnd(s, q, h[2])),
              yaml |-> SubSeq(s, h[1] + Len(h[2]), q - 1)]

\* string.split(/(\r?\n)/)[0]
FmFirstLine(s) ==
    LET n == RunLengthExcept(s, 1, {LF})
    IN  IF n < Len(s) /\ n >= 1 /\ s[n] = CR THEN SubSeq(s, 1, n - 1) ELSE SubSeq(s, 1, n)

\* /= yaml =|---/.test(line)
FmHasMarker(line) ==
    \E p \in 1..Len(line) : \E marker \in FmMarkers : LiteralAt(line, p, marker)

\* string.replace(text, ''): the first occurrence of the text is removed
RemoveFirst(s, text) ==
    LET p == IndexOfFrom(s, text, 1)
    IN  IF p = 0 \/ text = <<>> THEN s
        ELSE SubSeq(s, 1, p - 1) \o SubSeq(s, p + Len(text), Len(s))

\* fm(string): the body, the front matter (with whether there is one), and
\* whether the package's own yaml load threw
FmResult(string, match) ==
    IF FmHasMarker(FmFirstLine(string)) /\ match.found
    THEN [body |-> RemoveFirst(string, match.text),
          hasFrontmatter |-> TRUE,
          frontmatter |-> Trim(match.yaml),
          threw |-> YamlLoad(Trim(match.yaml)).kind = "exception"]
    ELSE [body |-> string, hasFrontmatter |-> FALSE, frontmatter |-> <<>>,
          threw |-> FALSE]

fm(string) == FmResult(string, FmRegexExec(string))

\* the value yaml.load gives, as options.metadata holds it: undefined, null
\* and false are absent metadata; a mapping is an object; a string is held by
\* its indexed characters and a number by no key at all, which is what the
\* spreads and the property reads of the later steps see of them
LoadedMetadata(loaded) ==
    IF loaded.kind = "undefined" THEN UndefinedMetadata
    ELSE IF loaded.kind = "scalar" /\ ~Truthy(loaded.value) THEN UndefinedMetadata
    ELSE Metadata(SpreadOf(loaded))

\* a variant that assigns what was loaded whether or not the package gave a
\* front matter
FrontMatterParsedUnguarded(content, parsedFrontMatter, slidifyOptions) ==
    [content |-> IF parsedFrontMatter.threw THEN content ELSE parsedFrontMatter.body,
     options |->
         IF ~parsedFrontMatter.threw
         THEN [slidifyOptions EXCEPT
                  !.metadata = LoadedMetadata(YamlLoad(parsedFrontMatter.frontmatter))]
         ELSE slidifyOptions,
     threw |-> parsedFrontMatter.threw]

\* lines 555 to 560: the content and the options after fm returned
\* parsedFrontMatter, slidifyOptions being what getSlidifyOptions gave
FrontMatterParsed(content, parsedFrontMatter, slidifyOptions) ==
    [content |-> IF parsedFrontMatter.threw THEN content ELSE parsedFrontMatter.body,
     options |->
         IF ~parsedFrontMatter.threw /\ parsedFrontMatter.frontmatter # <<>>
         THEN [slidifyOptions EXCEPT
                  !.metadata = LoadedMetadata(YamlLoad(parsedFrontMatter.frontmatter))]
         ELSE slidifyOptions,
     threw |-> parsedFrontMatter.threw]

\* a variant that does not remove the leading white space
parseFrontMatterKeepingLead(content, options, config) ==
    FrontMatterParsed(content, fm(content), getSlidifyOptions(options, config))

\* content.replace(/^(\n|\s)+/, '') is the removal of the leading white space
parseFrontMatter(content, options, config) ==
    FrontMatterParsed(content, fm(TrimStart(content)), getSlidifyOptions(options, config))

-----------------------------------------------------------------------------
(* The document the alerts are rendered into *)

\* A node of the document: an element with its class list, its inline style
\* (the properties in the order they were set) and its children, or a text
\* node. innerHTML is the serialisation of such nodes. The texts that
\* insertAdjacentHTML parses hold no '<' and no '&', so each becomes one text
\* node (none when the text is empty).
Element(tag, classes, style, children) ==
    [tag |-> tag, classes |-> classes, style |-> style, text |-> <<>>,
     children |-> children]

TextNode(text) ==
    [tag |-> "#text", classes |-> <<>>, style |-> <<>>, text |-> text,
     children |-> <<>>]

\* the nodes a text parses to
TextNodes(text) == IF text = <<>> THEN <<>> ELSE <<TextNode(text)>>

UpperCaseLetters ==
    <<"A", "B", "C", "D", "E", "F", "G", "H", "I", "J", "K", "L", "M",
      "N", "O", "P", "Q", "R", "S", "T", "U", "V", "W", "X", "Y", "Z">>

LowerCaseLetters ==
    <<"a", "b", "c", "d", "e", "f", "g", "h", "i", "j", "k", "l", "m",
      "n", "o", "p", "q", "r", "s", "t", "u", "v", "w", "x", "y", "z">>

\* the character c of the letters from, as the letters to write it
Recase(c, from, to) ==
    IF \E i \in 1..26 : from[i] = c THEN to[CHOOSE i \in 1..26 : from[i] = c] ELSE c

\* String.prototype.toLowerCase()
ToLowerCase(s) == [i \in 1..Len(s) |-> Recase(s[i], UpperCaseLetters, LowerCaseLetters)]

\* type.charAt(0).toUpperCase() + type.slice(1)
Capitalized(type) ==
    IF type = <<>> THEN <<>>
    ELSE <<Recase(type[1], LowerCaseLetters, UpperCaseLetters)>> \o Tail(type)

-----------------------------------------------------------------------------
(* splitSlideContentIntoBlocks *)

\* the line without the carriage return it ends with
WithoutTrailingCR(line) ==
    IF line # <<>> /\ line[Len(line)] = CR THEN SubSeq(line, 1, Len(line) - 1) ELSE line

\* content.split(/\r?\n/)
SplitLines(content) ==
    LET pieces == Split(content, LF)
    IN  [i \in 1..Len(pieces) |->
            IF i < Len(pieces) THEN WithoutTrailingCR(pieces[i]) ELSE pieces[i]]

\* /^>+\s*\[!/.test(trimmedLine)
IsAlertStart(trimmedLine) ==
    LET g == RunLength(trimmedLine, 1, {">"})
    IN  /\ g >= 1
        /\ LiteralAt(trimmedLine,
                     g + 1 + RunLength(trimmedLine, g + 1, {" ", LF, CR, TAB}),
                     <<"[", "!">>)

\* blocks.push(currentBlock.join('\n')) whatever the length of currentBlock
FlushedWhateverLength(currentBlock) == <<Join(currentBlock, LF)>>

\* blocks.push(currentBlock.join('\n')) when currentBlock.length > 0
Flushed(currentBlock) == IF currentBlock = <<>> THEN <<>> ELSE <<Join(currentBlock, LF)>>

\* the forEach over the lines: the blocks pushed from line i on, the push
\* after the loop included
RECURSIVE SplitBlocks(_, _, _, _)
SplitBlocks(lines, i, currentBlock, inAlertBlock) ==
    IF i > Len(lines) THEN Flushed(currentBlock)
    ELSE LET line == lines[i]
             trimmedLine == Trim(line)
         IN  IF trimmedLine = <<>>
             THEN Flushed(currentBlock)
                      \o SplitBlocks(lines, i + 1, <<>>,
                                     IF currentBlock = <<>> THEN inAlertBlock ELSE FALSE)
             ELSE IF IsAlertStart(trimmedLine)
             THEN Flushed(currentBlock) \o SplitBlocks(lines, i + 1, <<line>>, TRUE)
             ELSE IF trimmedLine[1] = ">"
             THEN SplitBlocks(lines, i + 1, Append(currentBlock, line), TRUE)
             ELSE IF inAlertBlock
             THEN SplitBlocks(lines, i + 1, Append(currentBlock, line), inAlertBlock)
             ELSE Flushed(currentBlock) \o <<line>>
                      \o SplitBlocks(lines, i + 1, <<>>,
                                     IF currentBlock = <<>> THEN inAlertBlock ELSE FALSE)

splitSlideContentIntoBlocks(content) == SplitBlocks(SplitLines(content), 1, <<>>, FALSE)

-----------------------------------------------------------------------------
(* createNestedBlockquote, renderBlockquote, styleBlockquotes *)

\* the content inside count nested blockquote elements
RECURSIVE createNestedBlockquote(_, _)
createNestedBlockquote(count, content) ==
    IF count <= 0 THEN content
    ELSE <<Element("blockquote", <<>>, <<>>, createNestedBlockquote(count - 1, content))>>

\* line.match(/^(>+)/): the length of the run of '>' the line starts with,
\* 0 when the match is null
LeadingQuotes(line) == RunLength(line, 1, {">"})

\* message.replace(/^>+\s*/, '').trim()
StripQuotes(message) == Trim(SubSeq(message, LeadingQuotes(message) + 1, Len(message)))

\* what '<p>' + groupedContent.join('<br>') + '</p>' parses to
RECURSIVE JoinedByBr(_, _)
JoinedByBr(groupedContent, i) ==
    IF i > Len(groupedContent) THEN <<>>
    ELSE (IF i > 1 THEN <<Element("br", <<>>, <<>>, <<>>)>> ELSE <<>>)
             \o TextNodes(groupedContent[i])
             \o JoinedByBr(groupedContent, i + 1)

Paragraph(groupedContent) == Element("p", <<>>, <<>>, JoinedByBr(groupedContent, 1))

\* the for loop of renderBlockquote from message i on, and the insertion
\* after it: the nodes inserted into alertDiv
RECURSIVE RenderBlockquoteLoop(_, _, _, _, _)
RenderBlockquoteLoop(alertMessageArray, i, count, currentCount, groupedContent) ==
    IF i > Len(alertMessageArray)
    THEN IF groupedContent # <<>>
         THEN createNestedBlockquote(currentCount, <<Paragraph(groupedContent)>>)
         ELSE <<>>
    ELSE LET text == StripQuotes(alertMessageArray[i])
             flush == count # currentCount /\ groupedContent # <<>>
         IN  (IF flush
              THEN createNestedBlockquote(currentCount, <<Paragraph(groupedContent)>>)
              ELSE <<>>)
                 \o RenderBlockquoteLoop(alertMessageArray, i + 1, count, count,
                        Append(IF flush THEN <<>> ELSE groupedContent, text))

\* alertMessageArray[0].match(/^(>+)/)[1] throws a TypeError when the first
\* line does not start with '>'
renderBlockquote(alertMessageArray) ==
    LET count == LeadingQuotes(alertMessageArray[1])
    IN  IF count = 0 THEN [threw |-> TRUE, nodes |-> <<>>]
        ELSE [threw |-> FALSE,
              nodes |-> RenderBlockquoteLoop(alertMessageArray, 1, count, 0, <<>>)]

\* blockquote.querySelector('blockquote')
RECURSIVE HasBlockquote(_)
HasBlockquote(node) ==
    \E i \in 1..Len(node.children) :
        node.children[i].tag = "blockquote" \/ HasBlockquote(node.children[i])

\* the inline styles styleBlockquotes sets
AlertStyle == <<"--padding-top: 0px", "--padding-bottom: 0px">>

BlockquoteStyle ==
    <<"padding-top: 0px", "padding-bottom: 0px", "border: 0px solid",
      "border-left-width: 6px">>

\* the node with every blockquote in it that holds a blockquote styled
\* (closest('blockquote') of a blockquote is the blockquote itself)
RECURSIVE StyledNode(_)
StyledNode(node) ==
    [node EXCEPT
        !.style = IF node.tag = "blockquote" /\ HasBlockquote(node)
                  THEN BlockquoteStyle ELSE @,
        !.children = [i \in 1..Len(node.children) |-> StyledNode(node.children[i])]]

styleBlockquotes(parent) ==
    [StyledNode(parent) EXCEPT
        !.style = IF \E i \in 1..Len(parent.children) :
                        /\ parent.children[i].tag = "blockquote"
                        /\ HasBlockquote(parent.children[i])
                  THEN AlertStyle ELSE @]

-----------------------------------------------------------------------------
(* renderMarkdownAlerts *)

IsLineStart(s, i) == i = 1 \/ IsLineTerminator(s[i - 1])

\* alertRegex /^\r*>.*$/gm matches somewhere in the content
alertRegex(content) ==
    \E i \in 1..Len(content) :
        /\ IsLineStart(content, i)
        /\ LiteralAt(content, i + RunLength(content, i, {CR}), <<">">>)

\* the pattern without the line feed that has to end the first line
AlertBlockAtAnyEnd(block, i) ==
    LET gt == i + RunLength(block, i, {CR})
        open == gt + 1 + RunLength(block, gt + 1, {" ", LF, CR, TAB})
        word == RunLength(block, open + 2, WordChars)
    IN  /\ LiteralAt(block, gt, <<">">>)
        /\ LiteralAt(block, open, <<"[", "!">>)
        /\ word >= 1
        /\ LiteralAt(block, open + 2 + word, <<"]">>)

\* alertBlockRegex /^\r*>\s*(\[!(\w+)\]).*\n(\s*\s*>.*\n?)*/gm matches at i:
\* the first line has to end in a line feed
AlertBlockAt(block, i) ==
    LET gt == i + RunLength(block, i, {CR})
        open == gt + 1 + RunLength(block, gt + 1, {" ", LF, CR, TAB})
        word == RunLength(block, open + 2, WordChars)
        close == open + 2 + word
        lineEnd == close + 1 + RunLengthExcept(block, close + 1, {LF, CR})
    IN  /\ LiteralAt(block, gt, <<">">>)
        /\ LiteralAt(block, open, <<"[", "!">>)
        /\ word >= 1
        /\ LiteralAt(block, close, <<"]">>)
        /\ LiteralAt(block, lineEnd, <<LF>>)

alertBlockRegex(block) ==
    \E i \in 1..Len(block) : IsLineStart(block, i) /\ AlertBlockAt(block, i)

\* where the bracket of alertTypeRegex /^\r*>*\s*(\[!(\w+)\])/gm opens when
\* the pattern is tried at i
AlertTypeOpen(s, i) ==
    LET gt == i + RunLength(s, i, {CR})
        sp == gt + RunLength(s, gt, {">"})
    IN  sp + RunLength(s, sp, {" ", LF, CR, TAB})

AlertTypeAt(s, i) ==
    LET open == AlertTypeOpen(s, i)
        word == RunLength(s, open + 2, WordChars)
    IN  /\ LiteralAt(s, open, <<"[", "!">>)
        /\ word >= 1
        /\ LiteralAt(s, open + 2 + word, <<"]">>)

\* s.match(alertTypeRegex) and then match[0].match(regexToGetAlertType)[1]:
\* the word in the brackets of the first match
alertTypeRegex(s) ==
    LET hits == { i \in 1..Len(s) : IsLineStart(s, i) /\ AlertTypeAt(s, i) }
    IN  IF hits = {} THEN [found |-> FALSE, type |-> <<>>]
        ELSE LET open == AlertTypeOpen(s, CHOOSE i \in hits : \A j \in hits : i <= j)
             IN  [found |-> TRUE,
                  type |-> SubSeq(s, open + 2, open + 1 + RunLength(s, open + 2, WordChars))]

\* alertMessageRegex /\r*>\s*[\w].*/gm matches somewhere in the block
alertMessageRegex(block) ==
    \E i \in 1..Len(block) :
        /\ block[i] = ">"
        /\ LET w == i + 1 + RunLength(block, i + 1, {" ", LF, CR, TAB})
           IN  w <= Len(block) /\ IsWord(block[w])

\* the icon of an alert type: the svg element its markup parses to, the text
\* field telling whose path data it holds
Icon(type) ==
    [tag |-> "svg", classes |-> <<>>, style |-> <<>>, text |-> type,
     children |-> <<Element("path", <<>>, <<>>, <<>>)>>]

alertIcons ==
    [type \in {<<"n", "o", "t", "e">>,
                 <<"t", "i", "p">>,
                 <<"c", "a", "u", "t", "i", "o", "n">>,
                 <<"i", "m", "p", "o", "r", "t", "a", "n", "t">>,
                 <<"w", "a", "r", "n", "i", "n", "g">>} |-> Icon(type)]

\* the names alertIcons inherits from Object.prototype that are in lower case
InheritedNames ==
    {<<"c", "o", "n", "s", "t", "r", "u", "c", "t", "o", "r">>,
     <<"_", "_", "p", "r", "o", "t", "o", "_", "_">>}

\* type in alertIcons
InAlertIcons(type) == type \in DOMAIN alertIcons \/ type \in InheritedNames

\* what alertTitle.innerHTML = alertIcons[type] leaves in the title: the icon,
\* or the text an inherited value is converted to
IconNodes(type) ==
    IF type \in DOMAIN alertIcons THEN <<alertIcons[type]>>
    ELSE IF type = <<"c", "o", "n", "s", "t", "r", "u", "c", "t", "o", "r">>
    THEN <<TextNode(<<"function Object() { [native code] }">>)>>
    ELSE <<TextNode(<<"[object Object]">>)>>

\* the class names of classList.add('alert', type) and of the title
AlertClass == <<"a", "l", "e", "r", "t">>

AlertTitleClass == <<"a", "l", "e", "r", "t", "-", "t", "i", "t", "l", "e">>

\* alertTitle with the icon and the capitalised type in it
AlertTitle(type) ==
    Element("div", <<AlertTitleClass>>, <<>>,
            IconNodes(type) \o <<TextNode(<<" ">> \o Capitalized(type))>>)

\* the nesting depth the loop over the messages computes: on every pass from
\* the first element of the array
MessageCountOne(alertContentArray) == 1

MessageCount(alertContentArray) ==
    IF LeadingQuotes(alertContentArray[1]) = 0 THEN 1
    ELSE LeadingQuotes(alertContentArray[1])

\* the loop over the messages with the count read from each message and not
\* from the first
RECURSIVE AlertMessagesOwnCount(_, _)
AlertMessagesOwnCount(alertContentArray, i) ==
    IF i > Len(alertContentArray) THEN <<>>
    ELSE createNestedBlockquote(MessageCount(<<alertContentArray[i]>>),
                                TextNodes(StripQuotes(alertContentArray[i])))
             \o AlertMessagesOwnCount(alertContentArray, i + 1)

\* the loop over the messages: the nodes inserted from message i on
RECURSIVE AlertMessages(_, _)
AlertMessages(alertContentArray, i) ==
    IF i > Len(alertContentArray) THEN <<>>
    ELSE createNestedBlockquote(MessageCount(alertContentArray),
                                TextNodes(StripQuotes(alertContentArray[i])))
             \o AlertMessages(alertContentArray, i + 1)

\* lines 848 to 869: the alert of a block whose first line gave the type
\* and the count
AlertDiv(alertContentArray, type, count) ==
    IF InAlertIcons(type) /\ count = 1
    THEN styleBlockquotes(
             Element("div", <<AlertClass, type>>, <<>>,
                     <<AlertTitle(type)>> \o AlertMessages(Tail(alertContentArray), 1)))
    ELSE styleBlockquotes(
             Element("div", <<AlertClass>>, <<>>, AlertMessages(alertContentArray, 1)))

\* lines 840 to 842: match[0] and match(...)[1] throw a TypeError when the
\* first line holds no type or opens with no '>'
AlertOfType(alertContentArray, match, count) ==
    IF ~match.found \/ count = 0 THEN [threw |-> TRUE, nodes |-> <<>>]
    ELSE [threw |-> FALSE,
          nodes |-> <<AlertDiv(alertContentArray, ToLowerCase(match.type), count)>>]

AlertOfLines(alertContentArray) ==
    AlertOfType(alertContentArray, alertTypeRegex(alertContentArray[1]),
                LeadingQuotes(alertContentArray[1]))

\* the first branch of the loop over the blocks
RenderedAlertBlock(block) == AlertOfLines(Split(block, LF))

\* lines 876 to 882, quote being what renderBlockquote gave
QuoteDiv(quote) ==
    [threw |-> quote.threw,
     nodes |-> <<styleBlockquotes(Element("div", <<AlertClass>>, <<>>, quote.nodes))>>]

\* the second branch: the block as block quote
RenderedQuoteBlock(block) == QuoteDiv(renderBlockquote(Split(block, LF)))

\* one pass of the loop over the blocks: what is appended to alertsContainer
RenderedBlock(block) ==
    IF alertBlockRegex(block) THEN RenderedAlertBlock(block)
    ELSE IF alertTypeRegex(block).found \/ alertMessageRegex(block)
    THEN RenderedQuoteBlock(block)
    ELSE [threw |-> FALSE, nodes |-> <<Element("p", <<>>, <<>>, TextNodes(block))>>]

\* alertsContainer.appendChild: an exception of any pass ends the loop
AppendedBlocks(first, rest) ==
    [threw |-> first.threw \/ rest.threw, nodes |-> first.nodes \o rest.nodes]

RECURSIVE RenderedBlocks(_, _)
RenderedBlocks(blocks, i) ==
    IF i > Len(blocks) THEN [threw |-> FALSE, nodes |-> <<>>]
    ELSE AppendedBlocks(RenderedBlock(blocks[i]), RenderedBlocks(blocks, i + 1))

\* line 889: alertsContainer.innerHTML, given as the nodes it serialises
AlertsContainer(blocks) ==
    [rendered |-> ~blocks.threw, text |-> <<>>,
     nodes |-> IF blocks.threw THEN <<>> ELSE blocks.nodes,
     threw |-> blocks.threw]

\* The value returned: the content itself when it holds no alert line, else
\* the innerHTML of alertsContainer.
renderMarkdownAlerts(content) ==
    IF ~alertRegex(content)
    THEN [rendered |-> FALSE, text |-> content, nodes |-> <<>>, threw |-> FALSE]
    ELSE AlertsContainer(RenderedBlocks(splitSlideContentIntoBlocks(content), 1))

-----------------------------------------------------------------------------
(* slidify: the separators and the section stack *)

\* a pattern given in the data-separator-vertical attribute
GivenVerticalSeparator == "\\r?\\n--\\r?\\n"

\* The separator patterns of the model, each with the line of dashes it
\* holds between its two optional-CR line breaks.
SeparatorDashes ==
    (DEFAULT_SLIDE_SEPARATOR :> <<"-", "-", "-">>) @@ (GivenVerticalSeparator :> <<"-", "-">>)

\* a pattern that matches the empty string: dashes, any number of them
AnyDashes == "-*"

\* what stands for 'the pattern does not match here'
NoMatch == 0 - 1

\* the pattern \r?\n<dashes>\r?\n tried at the one-based position p: the
\* position of the last character matched, NoMatch when it does not match
DashLineEndAt(dashes, s, p) ==
    LET lf == IF LiteralAt(s, p, <<CR>>) THEN p + 1 ELSE p
        cr == lf + 1 + Len(dashes)
        end == IF LiteralAt(s, cr, <<CR>>) THEN cr + 1 ELSE cr
    IN  IF LiteralAt(s, lf, <<LF>>) /\ LiteralAt(s, lf + 1, dashes) /\ LiteralAt(s, end, <<LF>>)
        THEN end ELSE NoMatch

\* a pattern tried at the one-based position p: the position of the last
\* character matched, which is p - 1 when the match is empty, and NoMatch when
\* the pattern does not match; -* matches at every position, the end of the
\* text included
SeparatorEndAt(pattern, s, p) ==
    IF pattern = AnyDashes THEN p - 1 + RunLength(s, p, {"-"})
    ELSE DashLineEndAt(SeparatorDashes[pattern], s, p)

\* options.separator + (options.verticalSeparator ? '|' + ... : '') tried at
\* p: the first alternative that matches wins
AlternativesEndAt(separator, verticalSeparator, s, p) ==
    IF SeparatorEndAt(separator, s, p) # NoMatch THEN SeparatorEndAt(separator, s, p)
    ELSE IF verticalSeparator # "" THEN SeparatorEndAt(verticalSeparator, s, p)
    ELSE NoMatch

\* separatorRegex.exec(markdown) with separatorRegex.lastIndex = lastIndex:
\* the leftmost match at or after lastIndex; index and lastIndex are
\* zero-based as in JavaScript
separatorRegexExec(separator, verticalSeparator, markdown, lastIndex) ==
    LET hits == { p \in (lastIndex + 1)..(Len(markdown) + 1) :
                    AlternativesEndAt(separator, verticalSeparator, markdown, p) # NoMatch }
        first == CHOOSE p \in hits : \A q \in hits : p <= q
        end == AlternativesEndAt(separator, verticalSeparator, markdown, first)
    IN  IF hits = {} THEN [found |-> FALSE, index |-> 0, lastIndex |-> 0, text |-> <<>>]
        ELSE [found |-> TRUE, index |-> first - 1, lastIndex |-> end,
              text |-> SubSeq(markdown, first, end)]

\* horizontalSeparatorRegex.test(text)
horizontalSeparatorRegexTest(separator, text) ==
    \E p \in 1..(Len(text) + 1) : SeparatorEndAt(separator, text, p) # NoMatch

\* An element of sectionStack: a string, or an array of elements.
Leaf(content) == [isArray |-> FALSE, content |-> content, elements |-> <<>>]

Group(elements) == [isArray |-> TRUE, content |-> <<>>, elements |-> elements]

\* sectionStack.push([])
OpenVerticalStack(sectionStack) == Append(sectionStack, Group(<<>>))

\* a variant that pushes the content as an array of its own
AddToVerticalStackWrapped(sectionStack, content) ==
    [sectionStack EXCEPT
        ![Len(sectionStack)].elements = Append(@, Group(<<Leaf(content)>>))]

\* sectionStack[sectionStack.length - 1].push(content)
AddToVerticalStack(sectionStack, content) ==
    [sectionStack EXCEPT ![Len(sectionStack)].elements = Append(@, Leaf(content))]

\* a variant that takes the whole text again
RemainderFromStart(markdown, lastIndex) == markdown

\* markdown.substring(lastIndex)
Remainder(markdown, lastIndex) == Substring(markdown, lastIndex, Len(markdown))

\* a variant in which a horizontal match always pushes onto the stack itself
StackAfterMatchHorizontalOnTop(sectionStack, wasHorizontal, isHorizontal, content) ==
    IF isHorizontal THEN Append(sectionStack, Leaf(content))
    ELSE IF wasHorizontal
    THEN AddToVerticalStack(OpenVerticalStack(sectionStack), content)
    ELSE AddToVerticalStack(sectionStack, content)

\* the body of the while loop for one match: the stack and wasHorizontal
\* after it
StackAfterMatch(sectionStack, wasHorizontal, isHorizontal, content) ==
    IF isHorizontal /\ wasHorizontal THEN Append(sectionStack, Leaf(content))
    ELSE IF ~isHorizontal /\ wasHorizontal
    THEN AddToVerticalStack(OpenVerticalStack(sectionStack), content)
    ELSE AddToVerticalStack(sectionStack, content)

\* line 277: the remaining slide
StackWithRemainder(sectionStack, wasHorizontal, content) ==
    IF wasHorizontal THEN Append(sectionStack, Leaf(content))
    ELSE AddToVerticalStack(sectionStack, content)

-----------------------------------------------------------------------------
(* createMarkdownSlide and renderTemplate *)

\* Markup is written as a sequence whose elements are the characters of the
\* texts and whole literals of the code, such as '<section '. What the
\* libraries outside the plugin return is written as a term: the name and the
\* arguments of the call.

\* the text escaped as innerHTML serialises a text node
EscapedText(text) ==
    [k \in 1..Len(text) |->
        CASE text[k] = ">" -> "&gt;"
          [] text[k] = "<" -> "&lt;"
          [] text[k] = "&" -> "&amp;"
          [] OTHER -> text[k]]

RECURSIVE JoinedStyle(_)
JoinedStyle(style) ==
    IF style = <<>> THEN <<>>
    ELSE <<Head(style), ";">> \o (IF Len(style) > 1 THEN <<" ">> ELSE <<>>)
             \o JoinedStyle(Tail(style))

\* the attributes of an element as serialised; the icon's markup is
\* abbreviated to the name of the type it belongs to
AttributesHTML(node) ==
    (IF node.classes # <<>>
     THEN <<" class=\"">> \o Join(node.classes, " ") \o <<"\"">> ELSE <<>>)
        \o (IF node.style # <<>>
            THEN <<" style=\"">> \o JoinedStyle(node.style) \o <<"\"">> ELSE <<>>)
        \o (IF node.tag = "svg" THEN <<" alertIcons=\"">> \o node.text \o <<"\"">> ELSE <<>>)

\* alertsContainer.innerHTML: the serialisation of the nodes
RECURSIVE InnerHTML(_)
InnerHTML(nodes) ==
    IF nodes = <<>> THEN <<>>
    ELSE (IF Head(nodes).tag = "#text" THEN EscapedText(Head(nodes).text)
          ELSE <<"<", Head(nodes).tag>> \o AttributesHTML(Head(nodes)) \o <<">">>
                   \o (IF Head(nodes).tag = "br" THEN <<>>
                       ELSE InnerHTML(Head(nodes).children)
                                \o <<"</", Head(nodes).tag, ">">>))
             \o InnerHTML(Tail(nodes))

\* the string renderMarkdownAlerts returns
AlertsHTML(alerts) == IF alerts.rendered THEN InnerHTML(alerts.nodes) ELSE alerts.text

\* titleRegex /^#+\r*(.*?)\r*$/m: the first line opening with '#', from
\* its first character to the end of the line, the carriage returns before
\* a line feed or the end of the text included
titleRegex(content) ==
    LET hits == { i \in 1..Len(content) : IsLineStart(content, i) /\ content[i] = "#" }
        from == CHOOSE i \in hits : \A j \in hits : i <= j
        hashes == from + RunLength(content, from, {"#"})
        text == hashes + RunLength(content, hashes, {CR})
        lineEnd == text + RunLengthExcept(content, text, {LF, CR})
        crs == RunLength(content, lineEnd, {CR})
        to == IF lineEnd + crs > Len(content) \/ content[lineEnd + crs] = LF
              THEN lineEnd + crs ELSE lineEnd
    IN  IF hits = {} THEN [found |-> FALSE, from |-> 0, to |-> 0, title |-> <<>>]
        ELSE [found |-> TRUE, from |-> from, to |-> to,
              title |-> Trim(SubSeq(content, text, lineEnd - 1))]

\* content.replace(titleRegex, '').trim()
WithoutTitle(content, matches) ==
    IF matches.found
    THEN Trim(SubSeq(content, 1, matches.from - 1) \o SubSeq(content, matches.to, Len(content)))
    ELSE Trim(content)

\* options.metadata.slide in a template literal
SlideName(metadata) ==
    IF slide \in DOMAIN metadata.map THEN metadata.map[slide].text ELSE <<"undefined">>

\* tempDiv.textContent after the template was fetched (status 200) or not
TemplateText(matches, alerts, metadata, status) ==
    IF status = 200
    THEN <<"textContent(Mustache.render(xhr.responseText, {title: ">>
             \o (IF matches.found THEN matches.title ELSE <<"undefined">>)
             \o <<", content: ">> \o AlertsHTML(alerts) \o <<", metadata}))">>
    ELSE <<"Template for slide \"">> \o SlideName(metadata) \o <<"\" not found.">>

\* an exception of renderMarkdownAlerts is thrown on
RenderedTemplate(matches, alerts, metadata, status) ==
    [threw |-> alerts.threw,
     content |-> IF alerts.threw THEN <<>> ELSE TemplateText(matches, alerts, metadata, status)]

renderTemplate(content, options, status) ==
    RenderedTemplate(titleRegex(content),
                     renderMarkdownAlerts(WithoutTitle(content, titleRegex(content))),
                     options.metadata, status)

\* the notes separator '^s*notes?:' under the flags m, g and i, tried at p:
\* the position after the match, 0 when it does not match
NotesEndAt(content, p) ==
    LET note == p + RunLength(content, p, {"s", "S"})
        colon == IF ToLowerCase(SubSeq(content, note + 4, note + 4)) = <<"s">>
                 THEN note + 5 ELSE note + 4
    IN  IF /\ IsLineStart(content, p)
           /\ note + 3 <= Len(content)
           /\ ToLowerCase(SubSeq(content, note, note + 3)) = <<"n", "o", "t", "e">>
           /\ LiteralAt(content, colon, <<":">>)
        THEN colon + 1 ELSE 0

\* the term for what marked returns
marked(text) == <<"marked(">> \o text \o <<")">>

\* the split taken at the first match however many matches there are
WithNotesAtFirstMatch(content) ==
    LET hits == { p \in 1..Len(content) : NotesEndAt(content, p) # 0 }
        p == CHOOSE h \in hits : \A g \in hits : h <= g
    IN  IF hits = {} THEN content
        ELSE SubSeq(content, 1, p - 1) \o <<"<aside class=\"notes\">">>
                 \o marked(Trim(SubSeq(content, NotesEndAt(content, p), Len(content))))
                 \o <<"</aside>">>

\* content.split(notesSeparator) and the aside put in when it gives two parts
WithNotes(content) ==
    LET hits == { p \in 1..Len(content) : NotesEndAt(content, p) # 0 }
        p == CHOOSE h \in hits : TRUE
    IN  IF Cardinality(hits) # 1 THEN content
        ELSE SubSeq(content, 1, p - 1) \o <<"<aside class=\"notes\">">>
                 \o marked(Trim(SubSeq(content, NotesEndAt(content, p), Len(content))))
                 \o <<"</aside>">>

SCRIPT_END_PLACEHOLDER ==
    <<"_", "_", "S", "C", "R", "I", "P", "T", "_", "E", "N", "D", "_", "_">>

ScriptEnd == <<"<", "/", "s", "c", "r", "i", "p", "t", ">">>

\* content.replace(/<\/script>/g, SCRIPT_END_PLACEHOLDER)
RECURSIVE WithoutScriptEnd(_)
WithoutScriptEnd(content) ==
    IF IndexOfFrom(content, ScriptEnd, 1) = 0 THEN content
    ELSE SubSeq(content, 1, IndexOfFrom(content, ScriptEnd, 1) - 1)
             \o SCRIPT_END_PLACEHOLDER
             \o WithoutScriptEnd(SubSeq(content,
                                        IndexOfFrom(content, ScriptEnd, 1) + Len(ScriptEnd),
                                        Len(content)))

\* lines 206 to 210, template being what renderTemplate gave
SlideScript(content, options, template) ==
    [threw |-> options.metadata.defined /\ template.threw,
     html |-> IF options.metadata.defined
              THEN IF template.threw THEN <<>>
                   ELSE <<"<script type=\"text/template\">">> \o template.content
                            \o <<"</script>">>
              ELSE <<"<script type=\"text/template\">">> \o content \o <<"</script>">>]

\* The notes separator is the default one in every call of the model; status
\* is the status of the request for the template.
createMarkdownSlide(content, options, status) ==
    SlideScript(WithoutScriptEnd(WithNotes(content)), options,
                renderTemplate(WithoutScriptEnd(WithNotes(content)), options, status))

-----------------------------------------------------------------------------
(* slidify: the steps before and after the loops *)

\* a variant that never sees the two options together
DataSeparatorConflictIgnored(options) == FALSE

\* options.separateByHeading and, inside it, options.hasDataSeparator
DataSeparatorConflict(options) == options.separateByHeading /\ options.hasDataSeparator

\* the section returned at lines 223 to 229
DiagnosticSection(attributes) ==
    <<"<section ">> \o attributes
        \o <<" data-markdown>",
             "Please do not specify \"data-markdown\" when \"data-separator-by-heading\" is used.",
             "</section>">>

\* lines 231 and 232: options and markdown when the headings separate
HeadingSeparatedOptions(options) ==
    IF options.separateByHeading THEN [options EXCEPT !.slideSeparator = slideSeparator]
    ELSE options

HeadingSeparatedMarkdown(markdown, options) ==
    IF options.separateByHeading THEN addSlideSeparator(markdown, slideSeparator)
    ELSE markdown

\* the functions called up to line 249
CalledBeforeLoop(options) ==
    <<"getSlidifyOptions">>
        \o (IF options.separateByHeading THEN <<"addSlideSeparator">> ELSE <<>>)
        \o <<"parseFrontMatter">>

\* '<section ' + slideOptions.attributes + ' data-markdown>' + ... + '</section>'
SlideSection(attributes, script) ==
    <<"<section ">> \o attributes \o <<" data-markdown>">> \o script \o <<"</section>">>

-----------------------------------------------------------------------------
(* The state of each function before it is called *)

IdleSep == sepIn = <<>> /\ sepOut = <<>>

\* the return value before the call
NoReturn == [markdown |-> <<>>, options |-> <<>>, threw |-> FALSE, called |-> <<>>]

IdleMeta ==
    /\ yamlRegexLastIndex = 0
    /\ metaOp = "none"
    /\ metaArg = [markdown |-> <<>>, options |-> <<>>]
    /\ metaRet = NoReturn

IdleFm ==
    /\ fmOp = "none"
    /\ fmArg = [lead |-> <<>>, block |-> <<>>, body |-> <<>>, options |-> <<>>]
    /\ fmRet = [content |-> <<>>, options |-> <<>>, threw |-> FALSE]

NotRendered == [rendered |-> FALSE, text |-> <<>>, nodes |-> <<>>, threw |-> FALSE]

IdleAlert ==
    /\ alertOp = "none"
    /\ alertArg = [lead |-> <<>>, first |-> <<>>, messages |-> <<>>]
    /\ alertRet = NotRendered
    /\ alertBlocks = <<>>

NotParsed == [content |-> <<>>, options |-> <<>>, threw |-> FALSE]

\* the local variables of slidify as line 241 to 246 and 279 set them
SlidifyLocals ==
    /\ slidifyParsed = NotParsed
    /\ slidifyLastIndex = 0
    /\ slidifyWasHorizontal = TRUE
    /\ slidifyStack = <<>>
    /\ slidifyI = 1
    /\ slidifyJ = 0
    /\ slidifySlideOptions = <<>>
    /\ slidifySections = <<>>
    /\ slidifyCalled = <<>>
    /\ slidifyMatches = <<>>
    /\ slidifySlides = <<>>

IdleSlidify ==
    /\ templateStatus = 200
    /\ slidifyPc = "none"
    /\ slidifyArgs = [markdown |-> <<>>, options |-> <<>>]
    /\ SlidifyLocals

NoSlide == [threw |-> FALSE, html |-> <<>>]

IdleSlide ==
    /\ slideOp = "none"
    /\ slideArg = [content |-> <<>>, options |-> <<>>]
    /\ slideRet = NoSlide

IdleProc ==
    /\ procPc = "none"
    /\ procSections = <<>>
    /\ procJobs = <<>>
    /\ procAll = "pending"
    /\ procSeen = <<>>

IdleCalls ==
    /\ alertBlockRegexLastIndex = 0
    /\ callsLog = <<>>

-----------------------------------------------------------------------------
(* The texts and options the metadata functions are called with *)

cover == <<"c", "o", "v", "e", "r">>
section == <<"s", "e", "c", "t", "i", "o", "n">>
toc == <<"t", "o", "c">>
false == <<"f", "a", "l", "s", "e">>
true == <<"t", "r", "u", "e">>
footer == <<"f", "o", "o", "t", "e", "r">>
title == <<"t", "i", "t", "l", "e">>

\* '::key:value'
Tag(key, value) == <<":", ":">> \o key \o <<":">> \o value

\* heading lines, with and without ::key:value tags
MetaHeadingLines ==
    { <<"#", " ", "T">>,
      <<"#", " ", "T", " ">> \o Tag(slide, cover) \o <<" ">> \o Tag(toc, false),
      <<"#", " ", "T", " ">> \o Tag(slide, section),
      <<"#", " ", "T", " ">> \o slide \o <<":", "x", " ">> \o Tag(slide, cover),
      <<"#", " ", "T", " ">> \o Tag(toc, false) \o <<" ">> \o Tag(toc, true),
      <<"#", "#", " ", "T", " ">> \o Tag(toc, <<" ">> \o false),
      <<"#", " ">> \o Tag(slide, cover \o <<" ", "T">>),
      <<"#", " ", "T", " ">> \o Tag(slide, <<"a", "(", "b">>),
      <<"T", " ">> \o Tag(slide, cover) }

\* fenced YAML blocks, each with the text that follows its closing fence
MetaYamlBlocks ==
    { <<>>,
      fence \o <<"y", "a", "m", "l", LF>> \o slide \o <<":", " ">> \o cover \o <<LF>>
          \o toc \o <<":", " ">> \o false \o <<LF>> \o fence \o <<LF>>,
      fence \o <<"y", "m", "l", LF>> \o slide \o <<":", " ">> \o section \o <<LF>>
          \o fence \o <<LF>>,
      fence \o <<"y", "a", "m", "l", LF>> \o slide \o <<":", " ">> \o cover \o <<LF>>
          \o fence \o <<" ", LF>>,
      fence \o <<"y", "a", "m", "l", LF, LF>> \o fence \o <<LF>>,
      fence \o <<"y", "a", "m", "l", LF>> \o fence \o <<LF>>,
      fence \o <<"y", "a", "m", "l", LF, "#", " ", "c", LF>> \o fence \o <<LF, "r">>,
      fence \o <<"y", "a", "m", "l", LF>> \o slide \o <<":", " ">> \o cover
          \o <<LF, "x", LF>> \o fence \o <<LF, "r">>,
      fence \o <<"y", "a", "m", "l", LF>> \o cover \o <<LF>> \o fence \o <<LF, "r">>,
      fence \o <<"y", "a", "m", "l", LF, "~", LF>> \o fence \o <<LF, "r">> }

\* what precedes the fenced block and the heading, and what follows them
MetaBefore == { <<>>, <<"p", LF>>, <<"p", " ">> \o Tag(slide, cover) \o <<LF>> }
MetaAfter == { <<>>, <<LF, "c">> }

MetaFragments ==
    { b \o y \o h \o a :
        b \in MetaBefore, y \in MetaYamlBlocks, h \in MetaHeadingLines, a \in MetaAfter }

\* the document-level metadata of the front matter
DocumentMetadata ==
    Metadata((slide :> StringValue(title)) @@ (footer :> StringValue(<<"f">>)))

MetaOptions ==
    [ separateByHeading : BOOLEAN,
      metadata : {UndefinedMetadata, DocumentMetadata},
      attributes : {<<>>, <<"i", "d", "=", "x">>} ]


\* the lines the markdown handed to addSlideSeparator is made of
SepLines ==
    { <<"#", " ", "A">>,
      <<"#", "#", "#", "#", "#", "#", TAB, "B">>,
      <<"#", "#", "#", "#", "#", "#", "#", " ", "C">>,
      <<"#", "D">>,
      <<"#", " ", "E", CR>>,
      slideSeparator,
      <<"-", "-", "-", CR>>,
      <<"a">>,
      <<>> }

MaxSepLines == 4

SepInputs ==
    { Join(ls, LF) : ls \in UNION { [1..n -> SepLines] : n \in 1..MaxSepLines } }

InitSep ==
    /\ sepIn \in SepInputs
    /\ sepOut = <<>>
    /\ IdleMeta
    /\ markdownConfig = NoConfig
    /\ IdleFm
    /\ IdleAlert
    /\ IdleSlidify
    /\ IdleSlide
    /\ IdleProc
    /\ IdleCalls

\* one call of addSlideSeparator, on the markdown the previous call returned
AddSlideSeparator ==
    /\ Len(sepOut) < 2
    /\ sepOut' = Append(sepOut,
                    addSlideSeparator(IF sepOut = <<>> THEN sepIn ELSE Last(sepOut),
                                      slideSeparator))
    /\ UNCHANGED <<sepIn, exceptSep>>

NextSep == AddSlideSeparator

SpecSep == InitSep /\ [][NextSep]_vars

-----------------------------------------------------------------------------
(* Claims about addSlideSeparator *)

\* the markdown the k-th call was given
C5_Arg(k) == IF k = 1 THEN sepIn ELSE sepOut[k - 1]

RECURSIVE C5_LeadingHashes(_)
C5_LeadingHashes(line) ==
    IF line # <<>> /\ Head(line) = "#" THEN 1 + C5_LeadingHashes(Tail(line)) ELSE 0

\* a heading line as the claim words it: 1 to 6 '#' followed by whitespace
C5_Heading(line) ==
    LET n == C5_LeadingHashes(line)
    IN  n \in 1..6 /\ Len(line) > n /\ line[n + 1] \in {" ", TAB, CR}

\* the claim's rule for line i of the input getting a separator before it
C5_Inserted(lines, i) ==
    /\ C5_Heading(lines[i])
    /\ \E j \in 1..(i - 1) : C5_Heading(lines[j])
    /\ lines[i - 1] # slideSeparator

C5_Pos(lines, i) == i + Cardinality({ j \in 1..i : C5_Inserted(lines, j) })

\* the lines of a result against the lines of its input, pos[i] being the
\* place of input line i in the result
C5_Placed(lines, out, pos) ==
    /\ Len(out) = IF lines = <<>> THEN 0 ELSE pos[Len(lines)]
    /\ \A i \in 1..Len(lines) :
          /\ out[pos[i]] = lines[i]
          /\ C5_Inserted(lines, i) => out[pos[i] - 1] = slideSeparator

C5_LinesPlaced(lines, out) ==
    C5_Placed(lines, out, [i \in 1..Len(lines) |-> C5_Pos(lines, i)])

\* C5: addSlideSeparator returns the input lines in order, with the separator
\* line put immediately before each heading but the first unless the line
\* before that heading is exactly the separator; nothing else is added,
\* removed or changed.
C5_SeparatorBeforeHeadings ==
    \A k \in 1..Len(sepOut) :
        C5_LinesPlaced(Split(C5_Arg(k), LF), Split(sepOut[k], LF))

\* a call that inserted one separator and left another heading, already
\* preceded by the separator, alone
C5_Witness ==
    /\ Len(sepOut) >= 1
    /\ LET lines == Split(sepIn, LF)
       IN  /\ \E i \in 1..Len(lines) : C5_Inserted(lines, i)
           /\ \E i \in 2..Len(lines) :
                 /\ C5_Heading(lines[i])
                 /\ \E j \in 1..(i - 1) : C5_Heading(lines[j])
                 /\ lines[i - 1] = slideSeparator

\* a separator line, whichever way the line ends: the split at line feeds
\* leaves the carriage return of a CRLF ending on the line
C6_SeparatorLine(line) == line = slideSeparator \/ line = slideSeparator \o <<CR>>

\* every heading but the first has a separator line directly before it
C6_AlreadySeparated(markdown) ==
    LET lines == Split(markdown, LF)
    IN  \A i \in 1..Len(lines) :
            (C5_Heading(lines[i]) /\ \E j \in 1..(i - 1) : C5_Heading(lines[j]))
                => C6_SeparatorLine(lines[i - 1])

\* a second call returns what the first call returned
C6_SecondCallChangesNothing == Len(sepOut) = 2 => sepOut[2] = sepOut[1]

\* C6: addSlideSeparator is idempotent, whatever the line endings, and a
\* markdown that already has a separator line directly before every heading
\* but the first comes back unchanged (no duplicate separator is inserted).
C6_Idempotent ==
    /\ C6_SecondCallChangesNothing
    /\ (Len(sepOut) >= 1 /\ C6_AlreadySeparated(sepIn)) => sepOut[1] = sepIn

\* a markdown with CRLF line endings whose second heading has a separator
\* line before it, and the call put another separator between the two
C6_Duplicated ==
    /\ Len(sepOut) >= 1
    /\ C6_AlreadySeparated(sepIn)
    /\ \E i \in 1..(Len(Split(sepOut[1], LF)) - 1) :
          /\ Split(sepOut[1], LF)[i] = slideSeparator \o <<CR>>
          /\ Split(sepOut[1], LF)[i + 1] = slideSeparator

-----------------------------------------------------------------------------
(* The metadata functions, each called once on a fragment *)

InitMeta ==
    /\ yamlRegexLastIndex = 0
    /\ metaOp = "none"
    /\ metaArg \in [markdown : MetaFragments, options : MetaOptions]
    /\ metaRet = NoReturn
    /\ IdleSep
    /\ markdownConfig = NoConfig
    /\ IdleFm
    /\ IdleAlert
    /\ IdleSlidify
    /\ IdleSlide
    /\ IdleProc
    /\ IdleCalls

\* yamlRegex.lastIndex = 0 is the statement after the two tests
SeparateInlineMetadataAndMarkdown ==
    /\ metaOp = "none"
    /\ metaRet' = separateInlineMetadataAndMarkdown(metaArg.markdown, metaArg.options,
                                                    yamlRegexLastIndex)
    /\ yamlRegexLastIndex' = 0
    /\ metaOp' = "separateInlineMetadataAndMarkdown"
    /\ UNCHANGED <<metaArg, exceptMeta>>

ExtractInlineMetadata ==
    /\ metaOp = "none"
    /\ metaRet' = extractInlineMetadata(metaArg.markdown, metaArg.options)
    /\ metaOp' = "extractInlineMetadata"
    /\ UNCHANGED <<yamlRegexLastIndex, metaArg, exceptMeta>>

\* yamlRegex.lastIndex = 0 is the statement after the exec
ExtractYAMLMetadata ==
    /\ metaOp = "none"
    /\ metaRet' = extractYAMLMetadata(metaArg.markdown, metaArg.options, yamlRegexLastIndex)
    /\ yamlRegexLastIndex' = 0
    /\ metaOp' = "extractYAMLMetadata"
    /\ UNCHANGED <<metaArg, exceptMeta>>

NextMeta ==
    \/ SeparateInlineMetadataAndMarkdown
    \/ ExtractInlineMetadata
    \/ ExtractYAMLMetadata

SpecMeta == InitMeta /\ [][NextMeta]_vars

-----------------------------------------------------------------------------
(* Claims about the metadata functions *)

\* the ::key:value tags of the fragment's first tagged heading line, from
\* left to right
C2_Tags(markdown) == metadataRegex(headingWithMetadataRegex(markdown).text, 1)

\* the call under way is separateInlineMetadataAndMarkdown on a fragment
\* with a tagged heading line
C2_Case ==
    /\ metaOp = "separateInlineMetadataAndMarkdown"
    /\ headingWithMetadataRegex(metaArg.markdown).found

\* the returned metadata is the incoming metadata overlaid with the tags:
\* a key some tag names holds the trimmed value of the last such tag, as a
\* string; every other key is an incoming key with its incoming value
C2_Overlaid ==
    LET tags == C2_Tags(metaArg.markdown)
        incoming == IF metaArg.options.metadata.defined
                    THEN metaArg.options.metadata.map ELSE <<>>
        out == metaRet.options.metadata
    IN  /\ out.defined
        /\ DOMAIN out.map = (DOMAIN incoming) \cup { Trim(tags[i].key) : i \in 1..Len(tags) }
        /\ \A k \in DOMAIN out.map :
              LET at == { i \in 1..Len(tags) : Trim(tags[i].key) = k }
              IN  IF at = {} THEN out.map[k] = incoming[k]
                  ELSE out.map[k] =
                           StringValue(Trim(tags[CHOOSE i \in at : \A j \in at : j <= i].value))

\* C2: separateInlineMetadataAndMarkdown on a fragment whose heading line
\* carries ::key:value tags returns the incoming metadata overlaid with the
\* tags in left-to-right order (trimmed string values, a later tag with the
\* same key wins, untouched incoming keys are retained).
C2_TagOverlay == C2_Case => (~metaRet.threw /\ C2_Overlaid)

\* the same, for the calls that return: only a call that throws breaks C2
C2_TagOverlayWhenReturned == (C2_Case /\ ~metaRet.threw) => C2_Overlaid

\* a tag value that new RegExp rejects makes the call throw
C2_Thrown == C2_Case /\ metaRet.threw

\* where the first fenced YAML block of the text has its body and its
\* closing fence (open = 0: there is none)
C3_Fence(markdown) ==
    LET hits == { p \in 1..Len(markdown) : YamlFenceAt(markdown, p).open # 0 }
    IN  IF hits = {} THEN [open |-> 0, close |-> 0]
        ELSE YamlFenceAt(markdown, CHOOSE x \in hits : \A y \in hits : x <= y)

C3_Body(markdown) ==
    SubSeq(markdown, C3_Fence(markdown).open, C3_Fence(markdown).close - 1)

\* the call under way is separateInlineMetadataAndMarkdown, heading mode
\* off, on a fragment with no tagged heading line and a fenced block whose
\* body parses to a mapping
C3_Case ==
    /\ metaOp = "separateInlineMetadataAndMarkdown"
    /\ ~metaArg.options.separateByHeading
    /\ ~headingWithMetadataRegex(metaArg.markdown).found
    /\ C3_Fence(metaArg.markdown).open # 0
    /\ YamlLoad(C3_Body(metaArg.markdown)).kind = "mapping"

\* the returned metadata is the incoming metadata overlaid with the parsed
\* keys, which keep their YAML types
C3_Typed ==
    LET parsed == YamlLoad(C3_Body(metaArg.markdown)).map
        incoming == IF metaArg.options.metadata.defined
                    THEN metaArg.options.metadata.map ELSE <<>>
        out == metaRet.options.metadata
    IN  /\ out.defined
        /\ DOMAIN out.map = (DOMAIN incoming) \cup (DOMAIN parsed)
        /\ \A k \in DOMAIN out.map :
              out.map[k] = IF k \in DOMAIN parsed THEN parsed[k] ELSE incoming[k]

\* the returned text is exactly the text after the closing fence
C3_TextAfterFence ==
    metaRet.markdown =
        SubSeq(metaArg.markdown, C3_Fence(metaArg.markdown).close + 3, Len(metaArg.markdown))

\* C3: for a fragment with a fenced yaml/yml block whose body parses to a
\* mapping (heading mode off, no tagged heading line) the returned metadata
\* is the incoming metadata overlaid with the parsed keys in their YAML
\* types, and the returned text is exactly the text after the closing fence.
C3_YamlBlock == C3_Case => (C3_Typed /\ C3_TextAfterFence)

\* the metadata half of C3 on its own
C3_YamlBlockTyped == C3_Case => C3_Typed

\* the text half of C3 where a line break directly follows the closing fence
C3_YamlBlockTextAfterLineBreak ==
    (/\ C3_Case
     /\ LET after == C3_Fence(metaArg.markdown).close + 3
        IN  after <= Len(metaArg.markdown) /\ metaArg.markdown[after] = LF)
    => C3_TextAfterFence

\* a closing fence followed by a space: the text after it is lost
C3_TextLost ==
    /\ C3_Case
    /\ metaRet.markdown = <<>>
    /\ C3_Fence(metaArg.markdown).close + 3 <= Len(metaArg.markdown)

\* C4: separateInlineMetadataAndMarkdown applies exactly one extraction
\* strategy per fragment: in heading mode always extractInlineMetadata and
\* never extractYAMLMetadata; otherwise extractInlineMetadata if a heading
\* line carries a tag, else extractYAMLMetadata if a yaml/yml fence is
\* present, else neither, and then text and metadata are returned unchanged.
C4_OneStrategy ==
    metaOp = "separateInlineMetadataAndMarkdown" =>
        LET tagged == headingWithMetadataRegex(metaArg.markdown).found
            fenced == C3_Fence(metaArg.markdown).open # 0
        IN  /\ Len(metaRet.called) <= 1
            /\ metaArg.options.separateByHeading
                   => metaRet.called = <<"extractInlineMetadata">>
            /\ (~metaArg.options.separateByHeading /\ tagged)
                   => metaRet.called = <<"extractInlineMetadata">>
            /\ (~metaArg.options.separateByHeading /\ ~tagged /\ fenced)
                   => metaRet.called = <<"extractYAMLMetadata">>
            /\ (~metaArg.options.separateByHeading /\ ~tagged /\ ~fenced)
                   => /\ metaRet.called = <<>>
                      /\ metaRet.markdown = metaArg.markdown
                      /\ metaRet.options.metadata = metaArg.options.metadata

\* a fragment with both a fenced block and a tagged heading line, heading
\* mode off: the inline tags are extracted, the fenced block is not
C4_Witness ==
    /\ metaOp = "separateInlineMetadataAndMarkdown"
    /\ ~metaArg.options.separateByHeading
    /\ headingWithMetadataRegex(metaArg.markdown).found
    /\ C3_Fence(metaArg.markdown).open # 0
    /\ metaRet.called = <<"extractInlineMetadata">>
    /\ ~metaRet.threw

-----------------------------------------------------------------------------
(* parseFrontMatter, called once on a document *)

\* the white space before the front matter
FmLeads ==
    { <<>>,
      <<" ">>,
      <<LF>>,
      <<" ", " ", " ">>,
      <<LF, LF, LF>>,
      <<LF, " ">> }

\* front-matter blocks that yaml.load reads as a mapping or as nothing: the
\* last line of each is the closing marker with its line feed
FmValidBlocks ==
    { <<"-", "-", "-", LF, "s", "l", "i", "d", "e", ":", " ", "c", "o", "v", "e",
        "r", LF, "-", "-", "-", LF>>,
      <<"-", "-", "-", LF, "s", "l", "i", "d", "e", ":", " ", "c", "o", "v", "e",
        "r", LF, "t", "o", "c", ":", " ", "f", "a", "l", "s", "e", LF, "-",
        "-", "-", LF>>,
      <<"-", "-", "-", LF, "-", "-", "-", LF>>,
      <<"-", "-", "-", LF, "f", "o", "o", "t", "e", "r", ":", " ", "f", LF, "-",
        "-", "-", " ", LF>> }

\* no front matter at all, and a block that yaml.load rejects
FmOtherBlocks ==
    { <<>>,
      <<"-", "-", "-", LF, "a", ":", " ", "b", ":", " ", "c", LF, "-", "-", "-",
        LF>> }

\* the text after the front matter
FmBodies ==
    { <<"#", " ", "T">>,
      <<LF, "#", " ", "T">>,
      <<" ", LF, "#", " ", "T">>,
      <<" ", " ", "#", " ", "T">>,
      <<"#", " ", "T", LF, LF, "-", "-", "-", LF, "#", " ", "U", LF>>,
      <<>>,
      <<LF>>,
      <<"a", " ", "-", "-", "-", " ", "b", LF, "-", "-", "-", LF, "c">> }

\* a host-level configuration
HostConfig ==
    [separator |-> "^===$", verticalSeparator |-> "", notesSeparator |-> "",
     separateByHeading |-> TRUE]

FmOptions == { NoOptions, [NoOptions EXCEPT !.metadata = DocumentMetadata] }

FmContent(arg) == arg.lead \o arg.block \o arg.body

InitFm ==
    /\ fmOp = "none"
    /\ fmArg \in [lead : FmLeads, block : FmValidBlocks \cup FmOtherBlocks,
                  body : FmBodies, options : FmOptions]
    /\ fmRet = [content |-> <<>>, options |-> <<>>, threw |-> FALSE]
    /\ markdownConfig \in {NoConfig, HostConfig}
    /\ IdleSep
    /\ IdleMeta
    /\ IdleAlert
    /\ IdleSlidify
    /\ IdleSlide
    /\ IdleProc
    /\ IdleCalls

ParseFrontMatter ==
    /\ fmOp = "none"
    /\ fmRet' = parseFrontMatter(FmContent(fmArg), fmArg.options, markdownConfig)
    /\ fmOp' = "parseFrontMatter"
    /\ UNCHANGED <<fmArg, exceptFm>>

NextFm == ParseFrontMatter

SpecFm == InitFm /\ [][NextFm]_vars

-----------------------------------------------------------------------------
(* Claims about parseFrontMatter *)

\* parseFrontMatter was called on spaces and line feeds followed by a
\* front-matter block and a body
C7_Case ==
    /\ fmOp = "parseFrontMatter"
    /\ fmArg.block \in FmValidBlocks
    /\ \A i \in 1..Len(fmArg.lead) : fmArg.lead[i] \in {" ", LF}

\* the body without the white-space-only lines it starts with: when white
\* space is all there is nothing is left, otherwise the text after the last
\* line feed of the leading white space
C7_WithoutLeadingBlankLines(body) ==
    LET w == RunLength(body, 1, {" ", LF, CR, TAB})
        lfs == { k \in 1..w : body[k] = LF }
    IN  IF w = Len(body) THEN <<>>
        ELSE IF lfs = {} THEN body
        ELSE SubSeq(body, (CHOOSE k \in lfs : \A j \in lfs : j <= k) + 1, Len(body))

\* C7 as stated: parseFrontMatter applied to spaces and line feeds followed
\* by a front-matter block and a body returns exactly the body as content.
C7_ExactlyTheBody == C7_Case => (~fmRet.threw /\ fmRet.content = fmArg.body)

\* C7, amended: parseFrontMatter applied to spaces and line feeds followed by
\* a front-matter block and a body returns as content the body without the
\* white-space-only lines it starts with; the leading white space and the
\* whole front-matter block are removed and the rest of the body is unchanged.
C7_BodyWithoutLeadingBlankLines ==
    C7_Case =>
        (~fmRet.threw /\ fmRet.content = C7_WithoutLeadingBlankLines(fmArg.body))

\* a document with white space before its front matter and a blank line
\* after it: the content returned starts at the first line that is not blank
C7_Witness ==
    /\ C7_Case
    /\ fmArg.lead # <<>>
    /\ fmArg.body # <<>> /\ Head(fmArg.body) = LF
    /\ fmRet.content # <<>>
    /\ fmRet.content # fmArg.body
    /\ fmRet.content = C7_WithoutLeadingBlankLines(fmArg.body)

-----------------------------------------------------------------------------
(* renderMarkdownAlerts and splitSlideContentIntoBlocks called on a content *)

\* first lines that open an alert of one of the five types
AlertTypedFirstLines ==
    {<<">", " ", "[", "!", "N", "O", "T", "E", "]">>,
     <<">", " ", "[", "!", "T", "i", "p", "]">>,
     <<">", " ", "[", "!", "c", "a", "u", "t", "i", "o", "n", "]">>,
     <<">", " ", " ", " ", " ", "[", "!", "I", "M", "P", "O", "R", "T", "A",
      "N", "T", "]">>,
     <<">", " ", "[", "!", "W", "a", "R", "n", "I", "n", "G", "]">>,
     <<">", " ", "[", "!", "C", "A", "U", "T", "I", "O", "N", "]", " ", "A", "d",
       "v", ".">>}

\* other first lines: an unknown type, a doubled and an indented '>', a name
\* alertIcons inherits, a plain quote
AlertOtherFirstLines ==
    {<<">", " ", "[", "!", "s", "o", "m", "e", "t", "h", "i", "n", "g", "]">>,
     <<">", ">", " ", "[", "!", "N", "O", "T", "E", "]">>,
     <<" ", " ", ">", " ", "[", "!", "N", "O", "T", "E", "]">>,
     <<">", " ", "[", "!", "c", "o", "n", "s", "t", "r", "u", "c", "t", "o",
      "r", "]">>,
     <<">", " ", "a">>}

AlertMessageLines ==
    {<<">", " ", "a">>,
     <<">", ">", " ", "b">>,
     <<" ", " ", " ", ">", " ", "c">>,
     <<"d">>,
     <<">">>,
     <<">", " ", " ", "e", " ">>}

MaxAlertMessages == 2

AlertMessageSeqs ==
    UNION { [1..k -> AlertMessageLines] : k \in 0..MaxAlertMessages }

\* what precedes the block: nothing, a paragraph and a blank line, or a
\* quoted line with no blank line after it
AlertLeads ==
    {<<>>,
     <<"t", "e", "x", "t", LF, LF>>,
     <<">", " ", "q", LF>>}

AlertBlock(arg) == Join(<<arg.first>> \o arg.messages, LF)

AlertContent(arg) == arg.lead \o AlertBlock(arg)

InitAlert ==
    /\ alertOp = "none"
    /\ alertArg \in [lead : AlertLeads,
                     first : AlertTypedFirstLines \cup AlertOtherFirstLines,
                     messages : AlertMessageSeqs]
    /\ alertRet = NotRendered
    /\ alertBlocks = <<>>
    /\ IdleSep
    /\ IdleMeta
    /\ markdownConfig = NoConfig
    /\ IdleFm
    /\ IdleSlidify
    /\ IdleSlide
    /\ IdleProc
    /\ IdleCalls

RenderMarkdownAlerts ==
    /\ alertOp = "none"
    /\ alertRet' = renderMarkdownAlerts(AlertContent(alertArg))
    /\ alertOp' = "renderMarkdownAlerts"
    /\ UNCHANGED <<alertArg, alertBlocks, exceptAlert>>

SplitSlideContentIntoBlocks ==
    /\ alertOp = "none"
    /\ alertBlocks' = splitSlideContentIntoBlocks(AlertContent(alertArg))
    /\ alertOp' = "splitSlideContentIntoBlocks"
    /\ UNCHANGED <<alertArg, alertRet, exceptAlert>>

NextAlert == RenderMarkdownAlerts \/ SplitSlideContentIntoBlocks

SpecAlert == InitAlert /\ [][NextAlert]_vars

-----------------------------------------------------------------------------
(* C10: how an alert of a known type is rendered *)

\* renderMarkdownAlerts was called on a block of a typed first line and
\* k >= 1 message lines
C10_Case ==
    /\ alertOp = "renderMarkdownAlerts"
    /\ alertArg.first \in AlertTypedFirstLines
    /\ Len(alertArg.messages) >= 1

\* the lower-cased word between '[!' and ']' of the first line
C10_Type ==
    ToLowerCase(SubSeq(alertArg.first,
                       IndexOfFrom(alertArg.first, <<"[">>, 1) + 2,
                       IndexOfFrom(alertArg.first, <<"]">>, 1) - 1))

\* the element the block was rendered to: the last one of the container
C10_Container == alertRet.nodes[Len(alertRet.nodes)]

\* one container with the classes 'alert' and the type, the title in it
\* first, and k elements after the title
C10_ContainerAndTitle ==
    /\ alertRet.rendered
    /\ alertRet.nodes # <<>>
    /\ C10_Container.tag = "div"
    /\ C10_Container.classes = <<AlertClass, C10_Type>>
    /\ Len(C10_Container.children) = Len(alertArg.messages) + 1
    /\ C10_Container.children[1].tag = "div"
    /\ C10_Container.children[1].classes = <<AlertTitleClass>>
    /\ C10_Container.children[1].children =
           <<alertIcons[C10_Type], TextNode(<<" ">> \o Capitalized(C10_Type))>>

\* the line without the '>' and the white space it starts with, in whatever
\* order they come, and without the white space it ends with
C10_Stripped(line) ==
    Trim(SubSeq(line, RunLength(line, 1, {">", " ", TAB, CR, LF}) + 1, Len(line)))

\* C10 as stated: a block of a first line '> [!TYPE]' of a known type and
\* k >= 1 message lines is rendered as one container with the classes 'alert'
\* and the lower-cased type, a title of the icon and the capitalised type, and
\* then exactly k blockquote elements, one per message line in order, each
\* holding the line stripped of its leading '>' and white space.
C10_OneBlockquotePerLine ==
    C10_Case =>
        /\ C10_ContainerAndTitle
        /\ \A i \in 1..Len(alertArg.messages) :
              /\ C10_Container.children[i + 1].tag = "blockquote"
              /\ C10_Container.children[i + 1].children =
                     TextNodes(C10_Stripped(alertArg.messages[i]))

\* the depth of every quote: the number of '>' the first message line starts
\* with, 1 when it starts with none
C10_Depth ==
    IF RunLength(alertArg.messages[1], 1, {">"}) = 0 THEN 1
    ELSE RunLength(alertArg.messages[1], 1, {">"})

\* the line without the run of '>' at its very start, trimmed
C10_QuoteRemoved(line) == Trim(SubSeq(line, RunLength(line, 1, {">"}) + 1, Len(line)))

\* the node is a chain of depth blockquote elements, the innermost holding
\* the content
RECURSIVE C10_IsNested(_, _, _)
C10_IsNested(node, depth, content) ==
    /\ node.tag = "blockquote"
    /\ IF depth <= 1 THEN node.children = content
       ELSE /\ Len(node.children) = 1
            /\ C10_IsNested(node.children[1], depth - 1, content)

\* C10, amended: such a block is rendered as one container with the classes
\* 'alert' and the lower-cased type, a title of the icon and the capitalised
\* type, and then exactly k quotes, one per message line in order; each quote
\* is a chain of d nested blockquote elements, d the number of '>' the first
\* message line starts with (1 when none), whose innermost element holds the
\* line without the run of '>' at its very start, trimmed: a line whose '>'
\* follows indentation keeps it.
C10_OneNestedQuotePerLine ==
    C10_Case =>
        /\ C10_ContainerAndTitle
        /\ \A i \in 1..Len(alertArg.messages) :
              C10_IsNested(C10_Container.children[i + 1], C10_Depth,
                           TextNodes(C10_QuoteRemoved(alertArg.messages[i])))

\* an alert of two message lines, the first opening with '>>' and the second
\* indented: two quotes of depth two, the second keeping its '>'
C10_Witness ==
    /\ C10_Case
    /\ Len(alertArg.messages) = 2
    /\ C10_Depth = 2
    /\ Head(alertArg.messages[2]) = " "
    /\ alertRet.rendered
    /\ Len(C10_Container.children) = 3
    /\ C10_Container.children[2].children[1].tag = "blockquote"
    /\ C10_Container.children[3].children[1].children[1].text = <<">", " ", "c">>

-----------------------------------------------------------------------------
(* C11: which blocks get a typed container *)

\* the five types of the fixed vocabulary
C11_Vocabulary ==
    {<<"n", "o", "t", "e">>, <<"t", "i", "p">>, <<"c", "a", "u", "t", "i", "o", "n">>,
     <<"i", "m", "p", "o", "r", "t", "a", "n", "t">>, <<"w", "a", "r", "n", "i", "n", "g">>}

\* the line opens with exactly one '>', then white space, then '[!word]'
C11_HasToken(line) ==
    /\ RunLength(line, 1, {">"}) = 1
    /\ LiteralAt(line, 2 + RunLength(line, 2, {" ", TAB}), <<"[", "!">>)
    /\ IndexOfFrom(line, <<"]">>, 1) > 3 + RunLength(line, 2, {" ", TAB})

\* the lower-cased word between '[!' and ']'
C11_Token(line) ==
    ToLowerCase(SubSeq(line, IndexOfFrom(line, <<"[">>, 1) + 2,
                       IndexOfFrom(line, <<"]">>, 1) - 1))

\* renderMarkdownAlerts returned the rendering of a block that opens with '>'
C11_Case ==
    /\ alertOp = "renderMarkdownAlerts"
    /\ Head(alertArg.first) = ">"
    /\ alertRet.rendered
    /\ alertRet.nodes # <<>>

\* the container is untyped: the class 'alert' alone, and no title in it
C11_Untyped(container) ==
    /\ container.tag = "div"
    /\ container.classes = <<AlertClass>>
    /\ \A i \in 1..Len(container.children) :
          container.children[i].classes # <<AlertTitleClass>>

\* every element of the container is a blockquote in a blockquote
C11_TwoDeep(container) ==
    /\ container.children # <<>>
    /\ \A i \in 1..Len(container.children) :
          /\ container.children[i].tag = "blockquote"
          /\ container.children[i].children # <<>>
          /\ container.children[i].children[1].tag = "blockquote"

\* what the claim asks of a block whose first-line token is outside types
C11_OnlyFor(types) ==
    C11_Case =>
        \/ C11_HasToken(alertArg.first) /\ C11_Token(alertArg.first) \in types
        \/ /\ C11_Untyped(C10_Container)
           /\ RunLength(alertArg.first, 1, {">"}) = 2 => C11_TwoDeep(C10_Container)

\* C11: renderMarkdownAlerts emits a typed container (a type class and a
\* title) only for a block whose first line has exactly one leading '>' and
\* a token that is, in lower case, one of note, tip, caution, important,
\* warning; every other block that opens with '>' is emitted as an untyped
\* 'alert' container without a title, a block of depth two being wrapped in
\* two nested blockquotes.
C11_TypedOnlyForVocabulary == C11_OnlyFor(C11_Vocabulary)

\* the same with the lower-case names alertIcons inherits from
\* Object.prototype counted as types
C11_TypedOnlyForNamesInAlertIcons == C11_OnlyFor(C11_Vocabulary \cup InheritedNames)

\* a block of the first line '> [!constructor]' got the class 'constructor'
\* and a title holding the text of the Object function
C11_InheritedNameTyped ==
    /\ C11_Case
    /\ C11_HasToken(alertArg.first)
    /\ C11_Token(alertArg.first) \notin C11_Vocabulary
    /\ C10_Container.classes = <<AlertClass, C11_Token(alertArg.first)>>
    /\ C10_Container.children[1].classes = <<AlertTitleClass>>

-----------------------------------------------------------------------------
(* C12: a block of a typed first line and the number of its lines *)

\* renderMarkdownAlerts returned the rendering of a text whose last block, as
\* the splitter flushes it, opens with one '>' and a token of the vocabulary
C12_Case ==
    /\ alertOp = "renderMarkdownAlerts"
    /\ C11_HasToken(alertArg.first)
    /\ C11_Token(alertArg.first) \in C11_Vocabulary
    /\ Last(splitSlideContentIntoBlocks(AlertContent(alertArg))) = AlertBlock(alertArg)
    /\ alertRet.rendered

\* the block came out as a typed alert: the classes 'alert' and the type, and
\* the title first
C12_Typed ==
    /\ C10_Container.tag = "div"
    /\ C10_Container.classes = <<AlertClass, C11_Token(alertArg.first)>>
    /\ C10_Container.children # <<>>
    /\ C10_Container.children[1] = AlertTitle(C11_Token(alertArg.first))

\* C12 as stated: every block the splitter flushes whose first line has
\* exactly one leading '>' and a token that is one of the five types is
\* rendered as a typed alert, whatever else the first line holds and however
\* many lines the block has.
C12_TypedWhateverTheLength == C12_Case => C12_Typed

\* C12, amended: such a block is rendered as a typed alert exactly when it
\* has a line after the first one, whatever else the first line holds; a
\* block of the first line alone is rendered as an untyped 'alert' container
\* holding the line as a quoted paragraph.
C12_TypedWhenMoreThanOneLine ==
    C12_Case =>
        IF Len(alertArg.messages) >= 1 THEN C12_Typed
        ELSE /\ C11_Untyped(C10_Container)
             /\ Len(C10_Container.children) = 1
             /\ C10_Container.children[1].tag = "blockquote"
             /\ C10_Container.children[1].children =
                    <<Element("p", <<>>, <<>>,
                              TextNodes(StripQuotes(alertArg.first)))>>

\* a typed alert of a first line that goes on after the token, and of one
\* message line
C12_Witness ==
    /\ C12_Case
    /\ Len(alertArg.messages) = 1
    /\ Last(alertArg.first) = "."
    /\ C12_Typed
    /\ Len(C10_Container.children) = 2

-----------------------------------------------------------------------------
(* createMarkdownSlide called once on a fragment *)

\* what the fragment opens with
SlideLeads ==
    {<<"#", " ", "T", LF, "b">>,
     <<"b">>,
     <<"a", "<", "/", "s", "c", "r", "i", "p", "t", ">">>}

\* lines after it: with the notes separator in its spellings, with a script
\* end in the notes, and lines the pattern does not match
SlideNoteLines ==
    {<<>>,
     <<LF, "n", "o", "t", "e", ":", " ", "x", " ">>,
     <<LF, "N", "o", "t", "e", "s", ":", "y", "<", "/", "s", "c", "r", "i", "p",
          "t", ">">>,
     <<LF, "s", "S", "n", "o", "t", "e", "s", ":", " ", "z">>,
     <<LF, " ", "n", "o", "t", "e", "s", ":", " ", "w">>,
     <<LF, "n", "o", "t", "e", "s">>}

MaxNoteLines == 2

RECURSIVE SlideTails(_)
SlideTails(n) ==
    IF n = 0 THEN {<<>>} ELSE { l \o t : l \in SlideNoteLines, t \in SlideTails(n - 1) }

InitSlide ==
    /\ slideOp = "none"
    /\ slideArg \in [content : { l \o t : l \in SlideLeads, t \in SlideTails(MaxNoteLines) },
                     options : {NoOptions, [NoOptions EXCEPT !.metadata = DocumentMetadata]}]
    /\ slideRet = NoSlide
    /\ templateStatus \in {200, 404}
    /\ slidifyPc = "none"
    /\ slidifyArgs = [markdown |-> <<>>, options |-> <<>>]
    /\ SlidifyLocals
    /\ IdleSep
    /\ IdleMeta
    /\ markdownConfig = NoConfig
    /\ IdleFm
    /\ IdleAlert
    /\ IdleProc
    /\ IdleCalls

CreateMarkdownSlide ==
    /\ slideOp = "none"
    /\ slideRet' = createMarkdownSlide(slideArg.content,
                                       getSlidifyOptions(slideArg.options, markdownConfig),
                                       templateStatus)
    /\ slideOp' = "createMarkdownSlide"
    /\ UNCHANGED <<slideArg, templateStatus, exceptSlide>>

NextSlide == CreateMarkdownSlide

SpecSlide == InitSlide /\ [][NextSlide]_vars

-----------------------------------------------------------------------------
(* C13: the notes of a slide *)

\* the notes separator matches from p up to e - 1: at the start of a line,
\* any number of 's', then 'note', an 's' or none, and ':', in either case
C13_SeparatorAt(content, p, e) ==
    /\ p = 1 \/ content[p - 1] \in {LF, CR}
    /\ \E k \in 0..Len(content) :
          /\ \A q \in p..(p + k - 1) : q <= Len(content) /\ content[q] \in {"s", "S"}
          /\ p + k + 3 <= Len(content)
          /\ content[p + k] \in {"n", "N"}
          /\ content[p + k + 1] \in {"o", "O"}
          /\ content[p + k + 2] \in {"t", "T"}
          /\ content[p + k + 3] \in {"e", "E"}
          /\ \/ e = p + k + 5 /\ e - 1 <= Len(content) /\ content[e - 1] = ":"
             \/ /\ e = p + k + 6
                /\ e - 1 <= Len(content)
                /\ content[e - 2] \in {"s", "S"}
                /\ content[e - 1] = ":"

\* the matches of the separator in the content
C13_Matches(content) ==
    { m \in (1..Len(content)) \X (1..(Len(content) + 1)) :
        C13_SeparatorAt(content, m[1], m[2]) }

\* the content createMarkdownSlide goes on with: of two parts, the first and
\* the aside of the second; of one part or of more than two, the content
C13_ContentWithNotes(content) ==
    IF Cardinality(C13_Matches(content)) # 1 THEN content
    ELSE LET m == CHOOSE x \in C13_Matches(content) : TRUE
         IN  SubSeq(content, 1, m[1] - 1)
                 \o <<"<aside class=\"notes\">">>
                 \o marked(Trim(SubSeq(content, m[2], Len(content))))
                 \o <<"</aside>">>

\* the number of notes elements opened in the markup
C13_Asides(html) ==
    Cardinality({ k \in 1..Len(html) : html[k] = "<aside class=\"notes\">" })

\* what createMarkdownSlide returns for a content that went through the split
C13_Slide(content, options) ==
    SlideScript(WithoutScriptEnd(content), options,
                renderTemplate(WithoutScriptEnd(content), options, templateStatus))

\* C13: createMarkdownSlide splits the fragment on the notes separator: of
\* exactly two parts, the content it goes on with is the first part followed
\* by one aside.notes element holding the rendered, trimmed second part; of
\* one part or of more than two, the content is left unchanged and no notes
\* element is emitted.
C13_NotesOfTwoParts ==
    slideOp = "createMarkdownSlide" =>
        /\ slideRet = C13_Slide(C13_ContentWithNotes(slideArg.content),
                                getSlidifyOptions(slideArg.options, markdownConfig))
        /\ ~slideArg.options.metadata.defined =>
              C13_Asides(slideRet.html) =
                  IF Cardinality(C13_Matches(slideArg.content)) = 1 THEN 1 ELSE 0

\* a fragment of two parts, the second with white space around it and the
\* separator written 'sSnotes:': the slide ends with its notes
C13_Witness ==
    /\ slideOp = "createMarkdownSlide"
    /\ Cardinality(C13_Matches(slideArg.content)) = 1
    /\ \E m \in C13_Matches(slideArg.content) : m[2] - m[1] = 8
    /\ ~slideArg.options.metadata.defined
    /\ C13_Asides(slideRet.html) = 1
    /\ Len(slideRet.html) >= 6
    /\ SubSeq(slideRet.html, Len(slideRet.html) - 5, Len(slideRet.html)) =
           <<"<aside class=\"notes\">", "marked(", "z", ")", "</aside>", "</script>">>

\* a fragment of three parts comes back whole and without notes
C13_MoreThanTwoParts ==
    /\ slideOp = "createMarkdownSlide"
    /\ Cardinality(C13_Matches(slideArg.content)) = 2
    /\ ~slideArg.options.metadata.defined
    /\ slideRet.html = <<"<script type=\"text/template\">">>
                           \o WithoutScriptEnd(slideArg.content) \o <<"</script>">>

-----------------------------------------------------------------------------
(* getSlidifyOptions called once *)

\* a pattern given in the call, and the configuration of a host that gives
\* every option
GivenSeparator == "^===$"

FullConfig ==
    [separator |-> "^\\*\\*\\*$", verticalSeparator |-> "^\\+\\+\\+$",
     notesSeparator |-> "^remarks:", separateByHeading |-> TRUE]

OptionNames == {"separator", "verticalSeparator", "notesSeparator", "separateByHeading"}

\* the options object of a call: the properties the caller gave, by name, and
\* the object as the code reads it. A property that is not given reads as
\* absent; one that is given holds a pattern, the empty string, true or false.
OptionsOfCalls ==
    { [content |-> <<>>, given |-> g,
       options |-> [NoOptions EXCEPT !.separator = s, !.verticalSeparator = v,
                                     !.notesSeparator = n, !.separateByHeading = h]] :
        g \in SUBSET OptionNames, s \in {"", GivenSeparator}, v \in {"", GivenSeparator},
        n \in {"", GivenSeparator}, h \in BOOLEAN }

InitOptions ==
    /\ slideOp = "none"
    /\ slideArg \in { a \in OptionsOfCalls :
                        /\ "separator" \notin a.given => a.options.separator = ""
                        /\ "verticalSeparator" \notin a.given => a.options.verticalSeparator = ""
                        /\ "notesSeparator" \notin a.given => a.options.notesSeparator = ""
                        /\ "separateByHeading" \notin a.given => ~a.options.separateByHeading }
    /\ slideRet = NoSlide
    /\ markdownConfig \in {NoConfig, HostConfig, FullConfig}
    /\ IdleSep
    /\ IdleMeta
    /\ IdleFm
    /\ IdleAlert
    /\ IdleSlidify
    /\ IdleProc
    /\ IdleCalls

GetSlidifyOptions ==
    /\ slideOp = "none"
    /\ slideRet' = getSlidifyOptions(slideArg.options, markdownConfig)
    /\ slideOp' = "getSlidifyOptions"
    /\ UNCHANGED <<slideArg, templateStatus, exceptSlide>>

NextOptions == GetSlidifyOptions

SpecOptions == InitOptions /\ [][NextOptions]_vars

-----------------------------------------------------------------------------
(* C15: call argument, then host configuration, then default *)

\* the built-in default of an option
C15_Default(name) ==
    CASE name = "separator" -> DEFAULT_SLIDE_SEPARATOR
      [] name = "verticalSeparator" -> DEFAULT_VERTICAL_SEPARATOR
      [] name = "notesSeparator" -> DEFAULT_NOTES_SEPARATOR
      [] name = "separateByHeading" -> FALSE

\* the host configuration gives the option
C15_Configured(name) ==
    IF name = "separateByHeading" THEN markdownConfig[name] ELSE markdownConfig[name] # ""

\* the value of the order: the call, else the host, else the default
C15_Resolved(name, given) ==
    IF given THEN slideArg.options[name]
    ELSE IF C15_Configured(name) THEN markdownConfig[name]
    ELSE C15_Default(name)

\* C15: getSlidifyOptions resolves each of separator, verticalSeparator,
\* notesSeparator and separateByHeading as the value given in the call if
\* one is given, else the value of the host configuration, else the built-in
\* default; a value given in the call, separateByHeading: false for one, is
\* never replaced by the value of the host configuration.
C15_CallThenHostThenDefault ==
    slideOp = "getSlidifyOptions" =>
        \A name \in OptionNames :
            slideRet[name] = C15_Resolved(name, name \in slideArg.given)

\* the call gives the option a value other than false and the empty string
C15_GivenTruthy(name) ==
    /\ name \in slideArg.given
    /\ IF name = "separateByHeading" THEN slideArg.options[name]
       ELSE slideArg.options[name] # ""

\* the order holds with a value of the call counted as given only when it is
\* neither false nor the empty string
C15_TruthyCallThenHostThenDefault ==
    slideOp = "getSlidifyOptions" =>
        \A name \in OptionNames :
            slideRet[name] =
                C15_Resolved(name, C15_GivenTruthy(name))

\* the call gave separateByHeading: false and nothing else, the host
\* configures true, and true is returned
C15_GivenFalseReplaced ==
    /\ slideOp = "getSlidifyOptions"
    /\ slideArg.given = {"separateByHeading"}
    /\ ~slideArg.options.separateByHeading
    /\ markdownConfig.separateByHeading
    /\ slideRet.separateByHeading

-----------------------------------------------------------------------------
(* slidify called on a document *)

\* the texts between the separators: a heading with a metadata tag, a
\* paragraph
SlidifyFragments ==
    {<<"#", " ", "A", " ", ":", ":", "s", "l", "i", "d", "e", ":", "c", "o",
      "v", "e", "r">>,
     <<"b">>}

\* the separator lines of the document, with the line breaks around them
SlidifySeparatorTexts ==
    {<<LF, "-", "-", "-", LF>>,
     <<LF, "-", "-", LF>>,
     <<CR, LF, "-", "-", "-", CR, LF>>}

MaxSeparators == 2

\* a front matter block before the first fragment, or none; two of the blocks
\* hold YAML comments, and a blank line follows one of them
SlidifyFrontMatters ==
    {<<>>,
     <<"-", "-", "-", LF, "s", "l", "i", "d", "e", ":", " ", "t", "i", "t", "l",
      "e", LF, "-", "-", "-", LF>>,
     <<"-", "-", "-", LF, "#", " ", "c", LF, "s", "l", "i", "d", "e", ":", " ",
      "t", "i", "t", "l", "e", LF, "-", "-", "-", LF, LF>>,
     <<"-", "-", "-", LF, "#", " ", "c", LF, "#", " ", "d", LF, "-", "-", "-", LF>>}

RECURSIVE SlidifyDocuments(_)
SlidifyDocuments(n) ==
    IF n = 0 THEN SlidifyFragments
    ELSE { d \o s \o f :
             d \in SlidifyDocuments(n - 1), s \in SlidifySeparatorTexts,
             f \in SlidifyFragments }

\* the options slidify is given: nothing, a vertical separator, separation by
\* heading, separation by heading together with a data-separator attribute
\* (with and without attributes), a data-separator pattern, forwarded
\* attributes together with a vertical separator, a vertical separator that
\* matches the empty string
SlidifyOptionsGiven ==
    { NoOptions,
      [NoOptions EXCEPT !.attributes = <<"i", "d", "=", "x">>,
                        !.verticalSeparator = GivenVerticalSeparator],
      [NoOptions EXCEPT !.verticalSeparator = GivenVerticalSeparator],
      [NoOptions EXCEPT !.separateByHeading = TRUE],
      [NoOptions EXCEPT !.separateByHeading = TRUE, !.hasDataSeparator = TRUE],
      [NoOptions EXCEPT !.separateByHeading = TRUE, !.hasDataSeparator = TRUE,
                        !.attributes = <<"i", "d", "=", "x">>],
      [NoOptions EXCEPT !.separator = GivenVerticalSeparator, !.hasDataSeparator = TRUE,
                        !.verticalSeparator = DEFAULT_SLIDE_SEPARATOR],
      [NoOptions EXCEPT !.verticalSeparator = AnyDashes] }

\* the passes of the while loop the model follows: more than any text of the
\* model has separators
MaxMatches == 4

Init ==
    /\ templateStatus \in {200, 404}
    /\ slidifyPc = "called"
    /\ slidifyArgs \in
           [markdown : { m \o d : m \in SlidifyFrontMatters,
                                  d \in UNION { SlidifyDocuments(n) : n \in 0..MaxSeparators } },
            options : SlidifyOptionsGiven]
    /\ SlidifyLocals
    /\ IdleSep
    /\ IdleMeta
    /\ markdownConfig = NoConfig
    /\ IdleFm
    /\ IdleAlert
    /\ IdleSlide
    /\ IdleProc
    /\ IdleCalls

\* lines 218 to 230: the two options together give the diagnostic section
SlidifyConflict ==
    /\ slidifyPc = "called"
    /\ DataSeparatorConflict(getSlidifyOptions(slidifyArgs.options, markdownConfig))
    /\ slidifySections' =
           DiagnosticSection(getSlidifyOptions(slidifyArgs.options, markdownConfig).attributes)
    /\ slidifyCalled' = <<"getSlidifyOptions">>
    /\ slidifyPc' = "returned"
    /\ UNCHANGED <<slidifyParsed, slidifyLastIndex, slidifyWasHorizontal, slidifyStack,
                   slidifyI, slidifyJ, slidifySlideOptions, slidifyMatches,
                   slidifySlides, yamlRegexLastIndex, exceptSlidify>>

\* lines 218 to 249: the separators before the headings, the patterns, the
\* front matter
SlidifyPrepare ==
    /\ slidifyPc = "called"
    /\ \E options \in {getSlidifyOptions(slidifyArgs.options, markdownConfig)} :
          /\ ~DataSeparatorConflict(options)
          /\ slidifyParsed' =
                 parseFrontMatter(HeadingSeparatedMarkdown(slidifyArgs.markdown, options),
                                  HeadingSeparatedOptions(options), markdownConfig)
          /\ slidifyCalled' = CalledBeforeLoop(options)
    /\ slidifyPc' = IF slidifyParsed'.threw THEN "threw" ELSE "matching"
    /\ UNCHANGED <<slidifyLastIndex, slidifyWasHorizontal, slidifyStack, slidifyI,
                   slidifyJ, slidifySlideOptions, slidifySections, slidifyMatches,
                   slidifySlides, yamlRegexLastIndex, exceptSlidify>>

\* one pass of the while loop, lines 252 to 274
SeparatorMatch ==
    /\ slidifyPc = "matching"
    /\ Len(slidifyMatches) < MaxMatches
    /\ \E matches \in {separatorRegexExec(slidifyParsed.options.separator,
                                          slidifyParsed.options.verticalSeparator,
                                          slidifyParsed.content, slidifyLastIndex)} :
          /\ matches.found
          /\ slidifyStack' =
                 StackAfterMatch(slidifyStack, slidifyWasHorizontal,
                                 horizontalSeparatorRegexTest(slidifyParsed.options.separator,
                                                              matches.text),
                                 Substring(slidifyParsed.content, slidifyLastIndex,
                                           matches.index))
          /\ slidifyLastIndex' = matches.lastIndex
          /\ slidifyWasHorizontal' =
                 horizontalSeparatorRegexTest(slidifyParsed.options.separator, matches.text)
          /\ slidifyMatches' = Append(slidifyMatches, matches.text)
    /\ slidifyCalled' = Append(slidifyCalled, "separatorRegex.exec")
    /\ UNCHANGED <<slidifyPc, slidifyParsed, slidifyI, slidifyJ, slidifySlideOptions,
                   slidifySections, slidifySlides, yamlRegexLastIndex, exceptSlidify>>

\* the exec that ends the while loop, and line 277
AddRemainingSlide ==
    /\ slidifyPc = "matching"
    /\ ~separatorRegexExec(slidifyParsed.options.separator,
                           slidifyParsed.options.verticalSeparator,
                           slidifyParsed.content, slidifyLastIndex).found
    /\ slidifyStack' =
           StackWithRemainder(slidifyStack, slidifyWasHorizontal,
                              Remainder(slidifyParsed.content, slidifyLastIndex))
    /\ slidifyCalled' = Append(slidifyCalled, "separatorRegex.exec")
    /\ slidifyPc' = "flattening"
    /\ UNCHANGED <<slidifyParsed, slidifyLastIndex, slidifyWasHorizontal, slidifyI,
                   slidifyJ, slidifySlideOptions, slidifySections, slidifyMatches,
                   slidifySlides, yamlRegexLastIndex, exceptSlidify>>

\* lines 291 to 297 and 302 to 308: the slide of one text of the stack is
\* appended to markdownSections
EmitSlide(child, options) ==
    /\ \E separated \in {separateInlineMetadataAndMarkdown(child, options,
                                                            yamlRegexLastIndex)} :
          \E script \in {createMarkdownSlide(
                             separated.markdown,
                             getSlidifyOptions(separated.options, markdownConfig),
                             templateStatus)} :
             IF separated.threw \/ script.threw
             THEN /\ slidifyPc' = "threw"
                  /\ UNCHANGED <<slidifySlideOptions, slidifySections, slidifySlides>>
             ELSE /\ slidifyPc' = slidifyPc
                  /\ slidifySlideOptions' = separated.options
                  /\ slidifySections' =
                         slidifySections
                             \o SlideSection(separated.options.attributes, script.html)
                  /\ slidifySlides' =
                         Append(slidifySlides,
                                [content |-> separated.markdown,
                                 options |-> separated.options])
    /\ slidifyCalled' =
           slidifyCalled \o <<"separateInlineMetadataAndMarkdown", "createMarkdownSlide">>
    /\ yamlRegexLastIndex' = 0

\* the pass of the for loop for a string of the stack
FlattenLeaf ==
    /\ slidifyPc = "flattening"
    /\ slidifyI <= Len(slidifyStack)
    /\ ~slidifyStack[slidifyI].isArray
    /\ EmitSlide(slidifyStack[slidifyI].content, slidifyParsed.options)
    /\ slidifyI' = slidifyI + 1
    /\ UNCHANGED <<slidifyParsed, slidifyLastIndex, slidifyWasHorizontal, slidifyStack,
                   slidifyJ, slidifyMatches, exceptSlidify>>

\* the pass of the for loop for an array: its opening section
FlattenOpen ==
    /\ slidifyPc = "flattening"
    /\ slidifyI <= Len(slidifyStack)
    /\ slidifyStack[slidifyI].isArray
    /\ slidifyJ = 0
    /\ slidifySlideOptions' = slidifyParsed.options
    /\ slidifySections' =
           slidifySections \o <<"<section ">> \o slidifyParsed.options.attributes \o <<">">>
    /\ slidifyJ' = 1
    /\ UNCHANGED <<slidifyPc, slidifyParsed, slidifyLastIndex, slidifyWasHorizontal,
                   slidifyStack, slidifyI, slidifyCalled, slidifyMatches, slidifySlides,
                   yamlRegexLastIndex, exceptSlidify>>

\* one call of the forEach over the array
FlattenChild ==
    /\ slidifyPc = "flattening"
    /\ slidifyI <= Len(slidifyStack)
    /\ slidifyStack[slidifyI].isArray
    /\ slidifyJ >= 1
    /\ slidifyJ <= Len(slidifyStack[slidifyI].elements)
    /\ EmitSlide(slidifyStack[slidifyI].elements[slidifyJ].content, slidifySlideOptions)
    /\ slidifyJ' = slidifyJ + 1
    /\ UNCHANGED <<slidifyParsed, slidifyLastIndex, slidifyWasHorizontal, slidifyStack,
                   slidifyI, slidifyMatches, exceptSlidify>>

\* the closing section after the forEach
FlattenClose ==
    /\ slidifyPc = "flattening"
    /\ slidifyI <= Len(slidifyStack)
    /\ slidifyStack[slidifyI].isArray
    /\ slidifyJ > Len(slidifyStack[slidifyI].elements)
    /\ slidifySections' = slidifySections \o <<"</section>">>
    /\ slidifyI' = slidifyI + 1
    /\ slidifyJ' = 0
    /\ UNCHANGED <<slidifyPc, slidifyParsed, slidifyLastIndex, slidifyWasHorizontal,
                   slidifyStack, slidifySlideOptions, slidifyCalled, slidifyMatches,
                   slidifySlides, yamlRegexLastIndex, exceptSlidify>>

\* line 312
Return ==
    /\ slidifyPc = "flattening"
    /\ slidifyI > Len(slidifyStack)
    /\ slidifyPc' = "returned"
    /\ UNCHANGED <<slidifyParsed, slidifyLastIndex, slidifyWasHorizontal, slidifyStack,
                   slidifyI, slidifyJ, slidifySlideOptions, slidifySections,
                   slidifyCalled, slidifyMatches, slidifySlides, yamlRegexLastIndex,
                   exceptSlidify>>

Next ==
    \/ SlidifyConflict
    \/ SlidifyPrepare
    \/ SeparatorMatch
    \/ AddRemainingSlide
    \/ FlattenLeaf
    \/ FlattenOpen
    \/ FlattenChild
    \/ FlattenClose
    \/ Return

Spec == Init /\ [][Next]_vars

-----------------------------------------------------------------------------
(* C1: separation by heading together with a data-separator *)

\* slidify was called with separateByHeading and hasDataSeparator both true
C1_Case ==
    /\ slidifyPc # "none"
    /\ slidifyArgs.options.separateByHeading
    /\ slidifyArgs.options.hasDataSeparator

\* the one section of the claim, ATTRS being the attributes given
C1_Section ==
    <<"<section ">> \o slidifyArgs.options.attributes
        \o <<" data-markdown>",
             "Please do not specify \"data-markdown\" when \"data-separator-by-heading\" is used.",
             "</section>">>

\* C1: slidify called with separateByHeading true and hasDataSeparator true
\* returns, whatever the markdown, exactly the section '<section ATTRS
\* data-markdown>Please do not specify "data-markdown" when
\* "data-separator-by-heading" is used.</section>', and on the way it inserts
\* no separator before a heading, parses no front matter, looks for no
\* separator and extracts no metadata: it goes from the call to the return
\* in one step, having called getSlidifyOptions only.
C1_DiagnosticSectionOnly ==
    C1_Case =>
        /\ slidifyPc \in {"called", "returned"}
        /\ slidifyCalled \in {<<>>, <<"getSlidifyOptions">>}
        /\ slidifyParsed = NotParsed
        /\ slidifyStack = <<>>
        /\ slidifyMatches = <<>>
        /\ slidifySlides = <<>>
        /\ slidifyPc = "returned" => slidifySections = C1_Section

\* the call has returned for a document with front matter and separators, and
\* attributes were given
C1_Witness ==
    /\ C1_Case
    /\ slidifyPc = "returned"
    /\ slidifyArgs.options.attributes # <<>>
    /\ Head(slidifyArgs.markdown) = "-"
    /\ \E p \in 1..Len(slidifyArgs.markdown) :
          SeparatorEndAt(DEFAULT_SLIDE_SEPARATOR, slidifyArgs.markdown, p) # NoMatch
    /\ slidifySections = C1_Section

-----------------------------------------------------------------------------
(* C8: the texts of the stack are the text between the matches *)

\* the strings of a stack read depth-first
RECURSIVE C8_Leaves(_)
C8_Leaves(elements) ==
    IF elements = <<>> THEN <<>>
    ELSE (IF Head(elements).isArray THEN C8_Leaves(Head(elements).elements)
          ELSE <<Head(elements).content>>) \o C8_Leaves(Tail(elements))

\* the first text, then each matched separator followed by the next text
RECURSIVE C8_Interleaved(_, _)
C8_Interleaved(leaves, matches) ==
    IF leaves = <<>> THEN <<>>
    ELSE Head(leaves)
             \o (IF matches = <<>> THEN <<>> ELSE Head(matches))
             \o C8_Interleaved(Tail(leaves), IF matches = <<>> THEN <<>> ELSE Tail(matches))

\* the separator pattern of the call matches somewhere in the text
C8_HasSeparator(text) ==
    \E p \in 1..Len(text) :
        AlternativesEndAt(slidifyParsed.options.separator,
                          slidifyParsed.options.verticalSeparator, text, p) # NoMatch

\* the while loop has ended and the remaining slide is added
C8_Stacked ==
    /\ slidifyPc \in {"flattening", "returned"}
    /\ \E k \in 1..Len(slidifyCalled) : slidifyCalled[k] = "separatorRegex.exec"

\* C8: once the remaining slide is added, for a text with n separator
\* matches the section stack holds exactly n + 1 strings which, read
\* depth-first, are the pieces of the text without its front matter between
\* consecutive matches, the last running to the end: with the matched
\* separators put back between them they give the text again, and none holds a
\* separator. With n = 0 the stack is one top-level string, the whole text,
\* and exactly one slide is emitted.
C8_FragmentsBetweenMatches ==
    C8_Stacked =>
        /\ Len(C8_Leaves(slidifyStack)) = Len(slidifyMatches) + 1
        /\ C8_Interleaved(C8_Leaves(slidifyStack), slidifyMatches) = slidifyParsed.content
        /\ \A k \in 1..Len(C8_Leaves(slidifyStack)) :
              ~C8_HasSeparator(C8_Leaves(slidifyStack)[k])
        /\ slidifyMatches = <<>> =>
              /\ slidifyStack = <<Leaf(slidifyParsed.content)>>
              /\ slidifyPc = "returned" =>
                    /\ Len(slidifySlides) = 1
                    /\ Cardinality({ k \in 1..Len(slidifySections) :
                                       slidifySections[k] = "<section " }) = 1

\* a document with front matter and two separators, a vertical one first:
\* three strings, two of them in an array, and the call has returned
C8_Witness ==
    /\ C8_Stacked
    /\ slidifyPc = "returned"
    /\ Len(slidifyMatches) = 2
    /\ Len(slidifyStack) = 2
    /\ slidifyStack[1].isArray
    /\ Len(C8_Leaves(slidifyStack)) = 3
    /\ slidifyParsed.content # slidifyArgs.markdown
    /\ Len(slidifySlides) = 3

-----------------------------------------------------------------------------
(* C9: arrays of the stack hold strings only *)

\* C9: after any sequence of horizontal and vertical separator matches, every
\* element of the section stack is a string or an array all of whose
\* elements are strings: an array never holds an array.
C9_GroupsHoldLeavesOnly ==
    \A i \in 1..Len(slidifyStack) :
        /\ ~slidifyStack[i].isArray => slidifyStack[i].elements = <<>>
        /\ \A j \in 1..Len(slidifyStack[i].elements) :
              /\ ~slidifyStack[i].elements[j].isArray
              /\ slidifyStack[i].elements[j].elements = <<>>

\* in the while loop, after a horizontal and then a vertical match: a string,
\* then an array of one string, which the next text will be added to
C9_Witness ==
    /\ slidifyPc = "matching"
    /\ Len(slidifyMatches) = 2
    /\ ~slidifyWasHorizontal
    /\ Len(slidifyStack) = 2
    /\ ~slidifyStack[1].isArray
    /\ slidifyStack[2].isArray
    /\ Len(slidifyStack[2].elements) = 1

-----------------------------------------------------------------------------
(* C14: the metadata of a slide and the slides next to it *)

\* for every text of the stack, depth-first: whether it is a top-level string
\* or the first string of its array
RECURSIVE C14_Firsts(_)
C14_Firsts(elements) ==
    IF elements = <<>> THEN <<>>
    ELSE (IF Head(elements).isArray
          THEN [k \in 1..Len(Head(elements).elements) |-> k = 1]
          ELSE <<TRUE>>) \o C14_Firsts(Tail(elements))

\* slidify returned the slides of a document
C14_Case ==
    /\ slidifyPc = "returned"
    /\ C8_Stacked
    /\ Len(slidifySlides) = Len(C8_Leaves(slidifyStack))

\* the options of a slide as its own text alone makes them from the options
\* of the document
C14_Own(k) ==
    separateInlineMetadataAndMarkdown(C8_Leaves(slidifyStack)[k],
                                      slidifyParsed.options, 0).options

\* slide k has the metadata and the class attribute its own text gives
C14_OwnOnly(k) ==
    /\ slidifySlides[k].options.metadata = C14_Own(k).metadata
    /\ slidifySlides[k].options.attributes = C14_Own(k).attributes

\* C14: each slide slidify emits has metadata, and the class attribute made
\* from it, equal to the metadata of the document overlaid with what that
\* slide's own text gives: keys extracted from one slide never appear in the
\* metadata of another, the slides of one vertical group included.
C14_OwnMetadataOnly ==
    C14_Case => \A k \in 1..Len(slidifySlides) : C14_OwnOnly(k)

\* the same for the top-level slides and the first slide of every group
C14_OwnMetadataOnlyOutsideGroups ==
    C14_Case =>
        \A k \in 1..Len(slidifySlides) : C14_Firsts(slidifyStack)[k] => C14_OwnOnly(k)

\* a later slide of a group has what its own text gives laid over the
\* options of the slide before it
C14_LaterInGroupOverPrevious ==
    C14_Case =>
        \A k \in 2..Len(slidifySlides) :
            ~C14_Firsts(slidifyStack)[k] =>
                slidifySlides[k].options =
                    separateInlineMetadataAndMarkdown(C8_Leaves(slidifyStack)[k],
                                                      slidifySlides[k - 1].options, 0).options

\* the second slide of a group, whose text has no metadata, carries the
\* slide key of the first one
C14_KeyOfSiblingKept ==
    /\ C14_Case
    /\ \E k \in 2..Len(slidifySlides) :
          /\ ~C14_Firsts(slidifyStack)[k]
          /\ ~headingWithMetadataRegex(C8_Leaves(slidifyStack)[k]).found
          /\ ~slidifyParsed.options.metadata.defined
          /\ slidifySlides[k].options.metadata.defined
          /\ slide \in DOMAIN slidifySlides[k].options.metadata.map
          /\ slidifySlides[k].options.attributes # C14_Own(k).attributes

-----------------------------------------------------------------------------
(* slidify as the value of one call *)

\* lines 294 to 296 and 305 to 307: the section of one text of the stack, and
\* the options separateInlineMetadataAndMarkdown returned with it
SectionOfScript(separated, script) ==
    IF separated.threw \/ script.threw
    THEN [threw |-> TRUE, options |-> separated.options, html |-> <<>>]
    ELSE [threw |-> FALSE, options |-> separated.options,
          html |-> SlideSection(separated.options.attributes, script.html)]

SectionOfSeparated(separated, config, status) ==
    SectionOfScript(separated,
                    createMarkdownSlide(separated.markdown,
                                        getSlidifyOptions(separated.options, config),
                                        status))

\* lines 291 to 297 and 302 to 308
SectionOfSlide(child, options, config, status, lastIndex) ==
    SectionOfSeparated(separateInlineMetadataAndMarkdown(child, options, lastIndex),
                       config, status)

\* lines 284 to 309: the sections of one element of the stack from its j-th
\* text on, a string being one text; slideOptions goes from one text to the
\* next, and closing is what follows the last
RECURSIVE SectionsOfTexts(_, _, _, _, _, _, _, _)
SectionsAfterText(elements, j, emitted, config, status, sections, closing) ==
    IF emitted.threw THEN [threw |-> TRUE, html |-> <<>>]
    ELSE SectionsOfTexts(elements, j + 1, emitted.options, config, status, 0,
                         sections \o emitted.html, closing)

SectionsOfTexts(elements, j, slideOptions, config, status, lastIndex, sections, closing) ==
    IF j > Len(elements) THEN [threw |-> FALSE, html |-> sections \o closing]
    ELSE SectionsAfterText(elements, j,
                           SectionOfSlide(elements[j].content, slideOptions, config, status,
                                          lastIndex),
                           config, status, sections, closing)

\* lines 286 to 299 for an array, lines 302 to 308 for a string
SectionsOfElement(element, options, config, status, lastIndex) ==
    IF element.isArray
    THEN SectionsOfTexts(element.elements, 1, options, config, status, lastIndex,
                         <<"<section ">> \o options.attributes \o <<">">>,
                         <<"</section>">>)
    ELSE SectionsOfTexts(<<element>>, 1, options, config, status, lastIndex, <<>>, <<>>)

\* lines 282 to 310: the for loop from sectionStack[i] on
RECURSIVE SectionsOfStack(_, _, _, _, _, _, _)
SectionsAfterElement(sectionStack, i, options, config, status, markdownSections, slides) ==
    IF slides.threw THEN [threw |-> TRUE, html |-> <<>>]
    ELSE SectionsOfStack(sectionStack, i + 1, options, config, status, 0,
                         markdownSections \o slides.html)

SectionsOfStack(sectionStack, i, options, config, status, lastIndex, markdownSections) ==
    IF i > Len(sectionStack) THEN [threw |-> FALSE, html |-> markdownSections]
    ELSE SectionsAfterElement(sectionStack, i, options, config, status, markdownSections,
                              SectionsOfElement(sectionStack[i], options, config, status,
                                                lastIndex))

\* lines 252 to 277: the while loop from lastIndex on and the remaining slide
RECURSIVE StackOfMarkdown(_, _, _, _, _)
StackAfterExec(content, options, lastIndex, wasHorizontal, sectionStack, matches,
               isHorizontal) ==
    IF matches.found
    THEN StackOfMarkdown(content, options, matches.lastIndex, isHorizontal,
                         StackAfterMatch(sectionStack, wasHorizontal, isHorizontal,
                                         Substring(content, lastIndex, matches.index)))
    ELSE StackWithRemainder(sectionStack, wasHorizontal, Remainder(content, lastIndex))

StackOfMatches(content, options, lastIndex, wasHorizontal, sectionStack, matches) ==
    StackAfterExec(content, options, lastIndex, wasHorizontal, sectionStack, matches,
                   horizontalSeparatorRegexTest(options.separator, matches.text))

StackOfMarkdown(content, options, lastIndex, wasHorizontal, sectionStack) ==
    StackOfMatches(content, options, lastIndex, wasHorizontal, sectionStack,
                   separatorRegexExec(options.separator, options.verticalSeparator,
                                      content, lastIndex))

\* lines 249 to 312, for what parseFrontMatter returned
SlidifiedParsed(parsed, config, status, lastIndex) ==
    IF parsed.threw THEN [threw |-> TRUE, html |-> <<>>]
    ELSE SectionsOfStack(StackOfMarkdown(parsed.content, parsed.options, 0, TRUE, <<>>),
                         1, parsed.options, config, status, lastIndex, <<>>)

\* lines 218 to 312, for the options getSlidifyOptions returned
SlidifiedWith(markdown, options, config, status, lastIndex) ==
    IF DataSeparatorConflict(options)
    THEN [threw |-> FALSE, html |-> DiagnosticSection(options.attributes)]
    ELSE SlidifiedParsed(parseFrontMatter(HeadingSeparatedMarkdown(markdown, options),
                                          HeadingSeparatedOptions(options), config),
                         config, status, lastIndex)

\* slidify(markdown, options): [threw, html]
slidify(markdown, options, config, status, lastIndex) ==
    SlidifiedWith(markdown, getSlidifyOptions(options, config), config, status, lastIndex)

\* The value of the call is what its steps arrive at.
SlidifyValueIsSlidifySteps ==
    slidifyPc \in {"returned", "threw"}
        => \E value \in {slidify(slidifyArgs.markdown, slidifyArgs.options,
                                 markdownConfig, templateStatus, 0)} :
              /\ value.threw = (slidifyPc = "threw")
              /\ slidifyPc = "returned" => value.html = slidifySections

-----------------------------------------------------------------------------
(* init, processSlides and loadExternalMarkdown *)

\* the digits of a number in a text, as string concatenation writes them
RECURSIVE DecimalText(_)
DecimalText(n) ==
    IF n < 10 THEN <<SubSeq(<<"0", "1", "2", "3", "4", "5", "6", "7", "8", "9">>,
                            n + 1, n + 1)[1]>>
    ELSE DecimalText(n \div 10) \o DecimalText(n % 10)

\* line 390
SuccessStatus(status) == (status >= 200 /\ status < 300) \/ status = 0

\* resolve(xhr, url) and reject(xhr, url): a promise is settled with the first
\* argument, and its reactions are called with that one value
SettledWith(arguments) == <<arguments[1]>>

\* a variant in which the reactions are given all the arguments
SettledWithAll(arguments) == arguments

\* the parameter a reaction names second: undefined when it is called with one
\* value, 'undefined' once concatenated
SecondParameter(arguments) ==
    IF Len(arguments) >= 2 THEN arguments[2] ELSE <<"undefined">>

\* lines 345 to 354
ErrorSection(url, status) ==
    <<"<section data-state=\"alert\">", "ERROR: The attempt to fetch ">>
        \o url \o <<" failed with HTTP status ">> \o DecimalText(status)
        \o <<".", "Check your browser's JavaScript console for more details.",
             "<p>Remember that you need to serve the presentation HTML from a HTTP server.</p>",
             "</section>">>

\* the section element as the document holds it before it is processed
ExternalSection(url, attributes) ==
    <<"<section data-markdown=\"">> \o url \o <<"\" ">> \o attributes \o <<">", "</section>">>

\* lines 334 to 341: the options of the call of slidify for a section with
\* these forwarded attributes and no data-separator attributes
SectionOptions(attributes) == [NoOptions EXCEPT !.attributes = attributes]

MaxSections == 2

ProcUrls == <<<<"a", ".", "m", "d">>, <<"b", ".", "m", "d">>, <<"c", ".", "m", "d">>>>

\* the external documents: two slides, one slide, a heading whose slide tag
\* does not compile as a pattern
ProcDocuments ==
    {<<"a", LF, "-", "-", "-", LF, "b">>,
     <<"c">>,
     <<"#", " ", "A", " ", ":", ":", "s", "l", "i", "d", "e", ":", "a", "(">>}

ProcAttributes == {<<>>, <<"i", "d", "=", "x">>}

ProcStatuses == {200, 0, 404, 500}

NoJobArguments == <<>>

InitProcess ==
    /\ procPc = "init"
    /\ \E n \in 1..MaxSections :
          procSections \in
              { [i \in 1..n |->
                    [url |-> ProcUrls[i], responseText |-> d[i], attributes |-> a[i],
                     sendThrows |-> t[i], request |-> "unsent", status |-> 0,
                     promise |-> "pending",
                     outerHTML |-> ExternalSection(ProcUrls[i], a[i])]] :
                  d \in [1..n -> ProcDocuments], a \in [1..n -> ProcAttributes],
                  t \in [1..n -> BOOLEAN] }
    /\ procJobs = <<>>
    /\ procAll = "pending"
    /\ procSeen = <<>>
    /\ IdleSep
    /\ IdleMeta
    /\ markdownConfig = NoConfig
    /\ IdleFm
    /\ IdleAlert
    /\ IdleSlidify
    /\ IdleSlide
    /\ IdleCalls

\* lines 400 to 410: send throws and the promise is resolved at once, for the
\* sections from the i-th on
RECURSIVE JobsOfThrownSends(_, _)
JobsOfThrownSends(sections, i) ==
    IF i > Len(sections) THEN <<>>
    ELSE (IF sections[i].sendThrows
          THEN <<[job |-> "fulfilled", section |-> i,
                  arguments |-> SettledWith(<<[status |-> 0, responseText |-> <<>>],
                                              sections[i].url>>)]>>
          ELSE <<>>)
             \o JobsOfThrownSends(sections, i + 1)

\* lines 323 to 371 called by init (line 111): every section has a document to
\* fetch; loadExternalMarkdown sends its request, and resolves at once when
\* send throws (lines 400 to 410)
ProcessSlides ==
    /\ procPc = "init"
    /\ procSections' =
           [i \in DOMAIN procSections |->
               [procSections[i] EXCEPT
                   !.request = IF procSections[i].sendThrows THEN "done" ELSE "sent"]]
    /\ procJobs' = JobsOfThrownSends(procSections, 1)
    /\ procPc' = "waiting"
    /\ UNCHANGED <<procAll, procSeen, yamlRegexLastIndex, exceptProc>>

\* lines 387 to 396: the request of a section reaches readyState 4
Response ==
    /\ procPc # "init"
    /\ procJobs = <<>>
    /\ \E i \in DOMAIN procSections : \E status \in ProcStatuses :
          /\ procSections[i].request = "sent"
          /\ procSections' = [procSections EXCEPT ![i].request = "done",
                                                  ![i].status = status]
          /\ procJobs' =
                 <<[job |-> IF SuccessStatus(status) THEN "fulfilled" ELSE "rejected",
                    section |-> i,
                    arguments |->
                        SettledWith(<<[status |-> status,
                                       responseText |-> procSections[i].responseText],
                                      procSections[i].url>>)]>>
    /\ UNCHANGED <<procPc, procAll, procSeen, yamlRegexLastIndex, exceptProc>>

\* what Promise.all and its then (line 370) do when the promise of a section
\* is settled
AllAfter(sections, all) ==
    IF all # "pending" THEN all
    ELSE IF \E k \in DOMAIN sections : sections[k].promise = "rejected" THEN "rejected"
    ELSE IF \A k \in DOMAIN sections : sections[k].promise = "fulfilled" THEN "fulfilled"
    ELSE "pending"

JobsAfter(sections, all) ==
    IF all = "pending" /\ AllAfter(sections, all) = "fulfilled"
    THEN <<[job |-> "resolve", section |-> 0, arguments |-> NoJobArguments]>>
    ELSE <<>>

\* lines 333 to 342: the function given first to then
FinishedLoading(i, xhr) ==
    \E slides \in {slidify(xhr.responseText, SectionOptions(procSections[i].attributes),
                           markdownConfig, templateStatus, yamlRegexLastIndex)} :
       \E sections \in
              {[procSections EXCEPT
                   ![i].promise = IF slides.threw THEN "rejected" ELSE "fulfilled",
                   ![i].outerHTML = IF slides.threw THEN @ ELSE slides.html]} :
          /\ procSections' = sections
          /\ procAll' = AllAfter(sections, procAll)
          /\ procJobs' = Tail(procJobs) \o JobsAfter(sections, procAll)

\* lines 345 to 355: the function given second to then
FailedToLoad(i, xhr, url) ==
    \E sections \in
           {[procSections EXCEPT ![i].promise = "fulfilled",
                                 ![i].outerHTML = ErrorSection(url, xhr.status)]} :
       /\ procSections' = sections
       /\ procAll' = AllAfter(sections, procAll)
       /\ procJobs' = Tail(procJobs) \o JobsAfter(sections, procAll)

\* the reaction to a fetched document runs
SuccessHandler ==
    /\ procJobs # <<>>
    /\ Head(procJobs).job = "fulfilled"
    /\ FinishedLoading(Head(procJobs).section, Head(procJobs).arguments[1])
    /\ yamlRegexLastIndex' = 0
    /\ UNCHANGED <<procPc, procSeen, exceptProc>>

\* the reaction to a failed fetch runs
FailureHandler ==
    /\ procJobs # <<>>
    /\ Head(procJobs).job = "rejected"
    /\ FailedToLoad(Head(procJobs).section, Head(procJobs).arguments[1],
                    SecondParameter(Head(procJobs).arguments))
    /\ UNCHANGED <<procPc, procSeen, yamlRegexLastIndex, exceptProc>>

\* line 370: resolve, the promise init waits for is resolved
Resolve ==
    /\ procJobs # <<>>
    /\ Head(procJobs).job = "resolve"
    /\ procPc' = "resolved"
    /\ procJobs' =
           Tail(procJobs)
               \o <<[job |-> "convertSlides", section |-> 0, arguments |-> NoJobArguments]>>
    /\ UNCHANGED <<procSections, procAll, procSeen, yamlRegexLastIndex, exceptProc>>

\* line 111: the function init gave to then calls convertSlides
ConvertSlides ==
    /\ procJobs # <<>>
    /\ Head(procJobs).job = "convertSlides"
    /\ procPc' = "converted"
    /\ procSeen' = [i \in DOMAIN procSections |-> procSections[i].outerHTML]
    /\ procJobs' = Tail(procJobs)
    /\ UNCHANGED <<procSections, procAll, yamlRegexLastIndex, exceptProc>>

NextProcess ==
    \/ ProcessSlides
    \/ Response
    \/ SuccessHandler
    \/ FailureHandler
    \/ Resolve
    \/ ConvertSlides

SpecProcess == InitProcess /\ [][NextProcess]_vars

-----------------------------------------------------------------------------
(* C16: the sections with external documents, whatever the order and the
   outcome of the fetches *)

\* every request has ended and no reaction waits to run
C16_Settled ==
    /\ procPc # "init"
    /\ procPc # "none"
    /\ procJobs = <<>>
    /\ \A i \in DOMAIN procSections : procSections[i].request = "done"

\* the request of the section was answered with a status line 390 accepts,
\* or with another
C16_Succeeded(i) ==
    /\ procSections[i].request = "done"
    /\ ~procSections[i].sendThrows
    /\ SuccessStatus(procSections[i].status)

C16_Failed(i) ==
    /\ procSections[i].request = "done"
    /\ ~procSections[i].sendThrows
    /\ ~SuccessStatus(procSections[i].status)

\* the slides of the document of the section
C16_OwnSlides(i) ==
    slidify(procSections[i].responseText, SectionOptions(procSections[i].attributes),
            markdownConfig, templateStatus, 0)

C16_IsErrorSection(html) ==
    /\ Len(html) >= 2
    /\ html[1] = "<section data-state=\"alert\">"
    /\ html[Len(html)] = "</section>"

\* the section is replaced, in its place, by what its own fetch calls for
C16_Replaced(i) ==
    /\ C16_Succeeded(i) =>
           /\ ~C16_OwnSlides(i).threw
           /\ procSections[i].outerHTML = C16_OwnSlides(i).html
    /\ C16_Failed(i) => C16_IsErrorSection(procSections[i].outerHTML)

\* convertSlides runs only after every fetch has settled and every section
\* was replaced
C16_ConvertedOnlyThen ==
    procPc \in {"resolved", "converted"} =>
        /\ \A i \in DOMAIN procSections :
              procSections[i].request = "done" /\ procSections[i].promise = "fulfilled"
        /\ procPc = "converted" =>
               procSeen = [i \in DOMAIN procSections |-> procSections[i].outerHTML]

\* C16: once every fetch has settled, in whatever order and with whatever
\* outcome, each section whose fetch succeeded holds the slides of its own
\* document, each section whose fetch failed holds an error section, and the
\* promise is resolved and convertSlides has run; convertSlides runs only
\* then.
C16_AllReplacedAndResolved ==
    /\ C16_Settled =>
           /\ \A i \in DOMAIN procSections : C16_Replaced(i)
           /\ procPc = "converted"
    /\ C16_ConvertedOnlyThen

\* Where the conversion of every fetched document returns, all of it holds.
C16_AllReplacedWhenConversionsReturn ==
    /\ (C16_Settled /\ \A i \in DOMAIN procSections : procSections[i].promise # "rejected")
           => /\ \A i \in DOMAIN procSections : C16_Replaced(i)
              /\ procPc = "converted"
    /\ C16_ConvertedOnlyThen

\* Whatever happens to the others, a section whose own conversion returns is
\* replaced.
C16_SiblingsReplaced ==
    C16_Settled =>
        \A i \in DOMAIN procSections :
            (C16_Succeeded(i) /\ C16_OwnSlides(i).threw) \/ C16_Replaced(i)

\* every fetch has settled, the conversion of one fetched document threw, its
\* sibling was replaced, and the promise stays unresolved: nothing is left to
\* run
C16_NeverResolved ==
    /\ C16_Settled
    /\ Len(procSections) = 2
    /\ C16_Succeeded(1)
    /\ C16_OwnSlides(1).threw
    /\ procSections[1].outerHTML
           = ExternalSection(procSections[1].url, procSections[1].attributes)
    /\ C16_Failed(2)
    /\ C16_IsErrorSection(procSections[2].outerHTML)
    /\ procAll = "rejected"
    /\ procPc = "waiting"
    /\ ~ENABLED NextProcess

-----------------------------------------------------------------------------
(* C17: the error section of a failed fetch *)

Contains(text, part) == IndexOfFrom(text, part, 1) > 0

\* the reaction to a failed fetch of the section has run
C17_Case(i) ==
    /\ C16_Failed(i)
    /\ procSections[i].promise = "fulfilled"

\* C17: the error section written for a fetch that ended with a non-success
\* status contains the URL requested and the status received.
C17_ErrorSectionNamesUrlAndStatus ==
    \A i \in DOMAIN procSections :
        C17_Case(i) =>
            /\ Contains(procSections[i].outerHTML, procSections[i].url)
            /\ Contains(procSections[i].outerHTML, DecimalText(procSections[i].status))

\* What the section holds: the status, and undefined where the URL is meant.
C17_ErrorSectionNamesStatusOnly ==
    \A i \in DOMAIN procSections :
        C17_Case(i) =>
            procSections[i].outerHTML
                = ErrorSection(<<"undefined">>, procSections[i].status)

\* the error section of a.md after status 404 names no URL
C17_UrlMissing ==
    /\ C17_Case(1)
    /\ procSections[1].status = 404
    /\ procSections[1].url = <<"a", ".", "m", "d">>
    /\ ~Contains(procSections[1].outerHTML, procSections[1].url)
    /\ Contains(procSections[1].outerHTML, <<"4", "0", "4">>)
    /\ Contains(procSections[1].outerHTML,
                <<"ERROR: The attempt to fetch ", "undefined", " failed with HTTP status ">>)

-----------------------------------------------------------------------------
(* C18: a fenced block whose body gives no mapping *)

\* what yamlRegex found in the markdown of the call, and what yaml.load makes
\* of the body
C18_Parts == yamlRegexExec(metaArg.markdown, 0)
C18_Loaded == YamlLoad(C18_Parts.body)

\* extractYAMLMetadata was called on a fragment whose fenced block has a body
\* that yaml.load turns into one of these kinds of result
C18_Case(kinds) ==
    /\ metaOp = "extractYAMLMetadata"
    /\ C18_Parts.found
    /\ C18_Parts.body # <<>>
    /\ C18_Loaded.kind \in kinds

\* the error message is returned as the text, the options are the options of
\* the call, nothing is thrown
C18_FailedSoftly ==
    /\ ~metaRet.threw
    /\ metaRet.markdown =
           IF C18_Loaded.kind = "exception" THEN YamlExceptionMessage
           ELSE InvalidInlineMetadata
    /\ metaRet.options.metadata = metaArg.options.metadata
    /\ metaRet.options.attributes = metaArg.options.attributes

\* C18: when the body of the fenced block fails to parse (an exception of
\* yaml.load) or parses to no structured result (undefined, or a scalar),
\* extractYAMLMetadata returns the error message as the text and leaves
\* options.metadata and options.attributes as they were; nothing is thrown
\* and nothing is merged.
C18_NoStructuredResultFailsSoftly ==
    C18_Case({"exception", "undefined", "scalar"}) => C18_FailedSoftly

\* It holds for the bodies that throw and the bodies that give undefined.
C18_UndefinedOrExceptionFailsSoftly ==
    C18_Case({"exception", "undefined"}) => C18_FailedSoftly

\* the body 'cover' is loaded as a string: its characters are merged as the
\* keys '0' to '4', the attributes become 'class=', and the text after the
\* fence is returned with no error message
C18_ScalarMerged ==
    /\ C18_Case({"scalar"})
    /\ C18_Parts.body = cover \o <<LF>>
    /\ metaArg.options.metadata = UndefinedMetadata
    /\ metaArg.options.attributes = <<"i", "d", "=", "x">>
    /\ metaRet.options.metadata.defined
    /\ DOMAIN metaRet.options.metadata.map = {<<"0">>, <<"1">>, <<"2">>, <<"3">>, <<"4">>}
    /\ metaRet.options.attributes = <<"c", "l", "a", "s", "s", "=">>
    /\ metaRet.markdown = C18_Parts.rest
    /\ SubSeq(metaRet.markdown, 1, 2) = <<LF, "r">>

\* a body of a comment only, and a body that yaml.load rejects, with the
\* options of the call returned
C18_Witness ==
    /\ C18_Case({"exception", "undefined"})
    /\ metaArg.options.attributes = <<"i", "d", "=", "x">>
    /\ metaArg.options.metadata = DocumentMetadata
    /\ metaRet.options = metaArg.options
    /\ metaRet.markdown \in {YamlExceptionMessage, InvalidInlineMetadata}

-----------------------------------------------------------------------------
(* C19: the forwarded attributes in the sections slidify returns *)

\* where the opening tag that starts at p ends
C19_TagEnd(html, p) ==
    CHOOSE q \in (p + 1)..Len(html) :
        /\ html[q] \in {" data-markdown>", ">"}
        /\ \A r \in (p + 1)..(q - 1) : html[r] \notin {" data-markdown>", ">"}

\* the attributes of the opening tags of the slide sections, in order
C19_SlideTags(html) ==
    LET opened == { p \in 1..Len(html) :
                      /\ html[p] = "<section "
                      /\ html[C19_TagEnd(html, p)] = " data-markdown>" }
    IN  { SubSeq(html, p + 1, C19_TagEnd(html, p) - 1) : p \in opened }

\* slidify returned the sections of a document, given forwarded attributes
C19_Case ==
    /\ slidifyPc = "returned"
    /\ slidifyArgs.options.attributes # <<>>
    /\ ~DataSeparatorConflict(getSlidifyOptions(slidifyArgs.options, markdownConfig))

\* C19: the attributes given in options.attributes stand unchanged in the
\* opening tag of every slide section slidify returns, with or without
\* metadata on the document or the slide.
C19_AttributesInEverySlide ==
    C19_Case => C19_SlideTags(slidifySections) = {slidifyArgs.options.attributes}

\* They stand in the tag of a slide whose options carry no metadata; with
\* metadata the tag holds 'class=' and the slide name instead.
C19_AttributesWithoutMetadata ==
    C19_Case =>
        /\ C19_SlideTags(slidifySections)
               = { slidifySlides[k].options.attributes : k \in 1..Len(slidifySlides) }
        /\ \A k \in 1..Len(slidifySlides) :
              slidifySlides[k].options.attributes =
                  IF slidifySlides[k].options.metadata.defined
                  THEN ClassAttribute(slidifySlides[k].options.metadata)
                  ELSE slidifyArgs.options.attributes

\* a document of a tagged slide and a plain slide: the first section has
\* class=cover in place of id=x, the second has id=x
C19_AttributesReplaced ==
    /\ C19_Case
    /\ Len(slidifySlides) = 2
    /\ slidifyArgs.options.attributes = <<"i", "d", "=", "x">>
    /\ slidifySlides[1].options.attributes = <<"c", "l", "a", "s", "s", "=">> \o cover
    /\ slidifySlides[2].options.attributes = <<"i", "d", "=", "x">>
    /\ C19_SlideTags(slidifySections)
           = {<<"c", "l", "a", "s", "s", "=">> \o cover, <<"i", "d", "=", "x">>}

-----------------------------------------------------------------------------
(* Calls made one after another on one plugin: the scan positions of the
   global patterns *)

\* Of the patterns with the g flag, yamlRegex is used by test and exec and
\* alertBlockRegex by exec, which start at lastIndex and leave it after the
\* match (at 0 when nothing matches). metadataRegex, alertTypeRegex,
\* alertMessageRegex and alertRegex are used by String.prototype.match only,
\* which starts at 0 and leaves lastIndex 0.

\* a variant that leaves the scan position where exec left it
AlertBlockRegexKept(lastIndex) == lastIndex

\* alertBlockRegex.lastIndex = 0, line 836
AlertBlockRegexReset(lastIndex) == 0

\* the repetition (\s*\s*>.*\n?)* of alertBlockRegex from position p on: the
\* position after the last line it takes
RECURSIVE AlertBlockLinesEnd(_, _)
AlertBlockLinesAfter(block, p, gt, lineEnd) ==
    IF ~LiteralAt(block, gt, <<">">>) THEN p
    ELSE AlertBlockLinesEnd(block,
                            IF LiteralAt(block, lineEnd, <<LF>>) THEN lineEnd + 1
                            ELSE lineEnd)

AlertBlockLinesFrom(block, p, gt) ==
    AlertBlockLinesAfter(block, p, gt, gt + 1 + RunLengthExcept(block, gt + 1, {LF, CR}))

AlertBlockLinesEnd(block, p) ==
    AlertBlockLinesFrom(block, p, p + RunLength(block, p, {" ", LF, CR, TAB}))

\* the position after the first line of the match of alertBlockRegex at i
AlertBlockFirstLineEnd(block, i) ==
    LET gt == i + RunLength(block, i, {CR})
        open == gt + 1 + RunLength(block, gt + 1, {" ", LF, CR, TAB})
        close == open + 2 + RunLength(block, open + 2, WordChars)
    IN  close + 1 + RunLengthExcept(block, close + 1, {LF, CR}) + 1

\* alertBlockRegex.lastIndex after alertBlockRegex.exec(block) from 0, line
\* 835, for a block the pattern matches
alertBlockRegexExecLastIndex(block) ==
    LET hits == { i \in 1..Len(block) : IsLineStart(block, i) /\ AlertBlockAt(block, i) }
    IN  AlertBlockLinesEnd(block,
                           AlertBlockFirstLineEnd(block,
                               CHOOSE i \in hits : \A j \in hits : i <= j)) - 1

\* lines 830 to 836 and 873 for the blocks from the k-th on, up to the block
\* whose rendering throws: block.match leaves lastIndex 0, exec moves it and
\* line 836 resets it
RECURSIVE AlertBlockRegexAfterBlocks(_, _, _)
AlertBlockRegexAfterBlock(blocks, k, lastIndex) ==
    IF RenderedBlock(blocks[k]).threw THEN lastIndex
    ELSE AlertBlockRegexAfterBlocks(blocks, k + 1, lastIndex)

AlertBlockRegexAfterBlocks(blocks, k, lastIndex) ==
    IF k > Len(blocks) THEN lastIndex
    ELSE AlertBlockRegexAfterBlock(blocks, k,
             IF alertBlockRegex(blocks[k])
             THEN AlertBlockRegexReset(alertBlockRegexExecLastIndex(blocks[k]))
             ELSE 0)

\* alertBlockRegex.lastIndex after renderMarkdownAlerts(content)
AlertBlockRegexAfterRender(content, lastIndex) ==
    IF ~alertRegex(content) THEN lastIndex
    ELSE AlertBlockRegexAfterBlocks(splitSlideContentIntoBlocks(content), 1, lastIndex)

\* yamlRegex.lastIndex after extractYAMLMetadata(markdown, options), lines
\* 599 and 600
YamlRegexAfterExtract(markdown, lastIndex) ==
    YamlRegexReset(yamlRegexExec(markdown, lastIndex).lastIndex)

\* yamlRegex.lastIndex after separateInlineMetadataAndMarkdown(markdown,
\* options): lines 653 and 655, and extractYAMLMetadata when line 665 calls it
YamlRegexAfterSeparate(markdown, options, lastIndex) ==
    IF /\ ~options.separateByHeading
       /\ ~headingWithMetadataRegex(markdown).found
       /\ yamlRegexExec(markdown, lastIndex).found
    THEN YamlRegexAfterExtract(markdown, YamlRegexAfterExtract(markdown, lastIndex))
    ELSE YamlRegexAfterExtract(markdown, lastIndex)

\* the texts of the calls: a fenced block with text after it, a fenced block
\* at the end of the text, two fenced blocks of which the first is followed by
\* a letter, a tagged heading, a plain line
CallFragments ==
    { fence \o <<"y", "a", "m", "l", LF>> \o slide \o <<":", " ">> \o cover \o <<LF>>
          \o fence \o <<LF, "r">>,
      fence \o <<"y", "m", "l", LF>> \o slide \o <<":", " ">> \o section \o <<LF>> \o fence,
      fence \o <<"y", "a", "m", "l", LF>> \o toc \o <<":", " ">> \o false \o <<LF>>
          \o fence \o <<"x">>
          \o fence \o <<"y", "a", "m", "l", LF>> \o slide \o <<":", " ">> \o cover \o <<LF>>
          \o fence \o <<LF, "r">>,
      <<"#", " ", "T", " ">> \o Tag(slide, cover),
      <<"p">> }

CallOptions ==
    { [separateByHeading |-> FALSE, metadata |-> UndefinedMetadata, attributes |-> <<>>],
      [separateByHeading |-> FALSE, metadata |-> DocumentMetadata, attributes |-> <<>>] }

\* the contents renderMarkdownAlerts is called with: an alert of two lines
\* and a paragraph, an alert of two lines, a quote, an alert line on its own,
\* no quote at all
CallContents ==
    { <<">", " ", "[", "!", "N", "O", "T", "E", "]", LF, ">", " ", "a", LF, LF, "p">>,
      <<">", " ", "[", "!", "T", "I", "P", "]", LF, ">", " ", "b">>,
      <<">", " ", "q">>,
      <<">", " ", "[", "!", "T", "I", "P", "]">>,
      <<"p">> }

MaxCalls == 2

InitCalls ==
    /\ yamlRegexLastIndex = 0
    /\ alertBlockRegexLastIndex = 0
    /\ callsLog = <<>>
    /\ metaOp = "none"
    /\ metaArg = [markdown |-> <<>>, options |-> <<>>]
    /\ metaRet = NoReturn
    /\ IdleSep
    /\ markdownConfig = NoConfig
    /\ IdleFm
    /\ IdleAlert
    /\ IdleSlidify
    /\ IdleSlide
    /\ IdleProc

CallSeparateInlineMetadataAndMarkdown ==
    /\ Len(callsLog) < MaxCalls
    /\ \E markdown \in CallFragments : \E options \in CallOptions :
          /\ callsLog' =
                 Append(callsLog,
                        [op |-> "separateInlineMetadataAndMarkdown", text |-> markdown,
                         options |-> options,
                         ret |-> separateInlineMetadataAndMarkdown(markdown, options,
                                                                   yamlRegexLastIndex)])
          /\ yamlRegexLastIndex' =
                 YamlRegexAfterSeparate(markdown, options, yamlRegexLastIndex)
    /\ UNCHANGED <<alertBlockRegexLastIndex, exceptCalls>>

CallExtractYAMLMetadata ==
    /\ Len(callsLog) < MaxCalls
    /\ \E markdown \in CallFragments : \E options \in CallOptions :
          /\ callsLog' =
                 Append(callsLog,
                        [op |-> "extractYAMLMetadata", text |-> markdown,
                         options |-> options,
                         ret |-> extractYAMLMetadata(markdown, options, yamlRegexLastIndex)])
          /\ yamlRegexLastIndex' = YamlRegexAfterExtract(markdown, yamlRegexLastIndex)
    /\ UNCHANGED <<alertBlockRegexLastIndex, exceptCalls>>

CallRenderMarkdownAlerts ==
    /\ Len(callsLog) < MaxCalls
    /\ \E content \in CallContents :
          /\ callsLog' =
                 Append(callsLog,
                        [op |-> "renderMarkdownAlerts", text |-> content, options |-> <<>>,
                         ret |-> renderMarkdownAlerts(content)])
          /\ alertBlockRegexLastIndex' =
                 AlertBlockRegexAfterRender(content, alertBlockRegexLastIndex)
    /\ UNCHANGED <<yamlRegexLastIndex, exceptCalls>>

NextCalls ==
    \/ CallSeparateInlineMetadataAndMarkdown
    \/ CallExtractYAMLMetadata
    \/ CallRenderMarkdownAlerts

SpecCalls == InitCalls /\ [][NextCalls]_vars

-----------------------------------------------------------------------------
(* C20: the scan positions after every call *)

\* what the call returns on a plugin that made no call before
C20_Fresh(call) ==
    IF call.op = "separateInlineMetadataAndMarkdown"
    THEN separateInlineMetadataAndMarkdown(call.text, call.options, 0)
    ELSE IF call.op = "extractYAMLMetadata"
    THEN extractYAMLMetadata(call.text, call.options, 0)
    ELSE renderMarkdownAlerts(call.text)

\* C20: on return from every call of separateInlineMetadataAndMarkdown,
\* extractYAMLMetadata and renderMarkdownAlerts the scan positions of the
\* shared global patterns are 0, and after any sequence of earlier calls a
\* call returns what it returns on a fresh plugin.
C20_ScanPositionsReset ==
    /\ yamlRegexLastIndex = 0
    /\ alertBlockRegexLastIndex = 0
    /\ \A k \in 1..Len(callsLog) : callsLog[k].ret = C20_Fresh(callsLog[k])

\* two calls on the text of two fenced blocks, the exec of the first call
\* having moved the scan position behind the first block: the second call
\* finds the first block again
C20_Witness ==
    /\ Len(callsLog) = 2
    /\ callsLog[1].op = "extractYAMLMetadata"
    /\ callsLog[2].text = callsLog[1].text
    /\ callsLog[2].options = callsLog[1].options
    /\ yamlRegexExec(callsLog[1].text, 0).lastIndex \in 1..(Len(callsLog[1].text) - 1)
    /\ yamlRegexExec(callsLog[1].text, yamlRegexExec(callsLog[1].text, 0).lastIndex).found
    /\ callsLog[2].ret = callsLog[1].ret
    /\ toc \in DOMAIN callsLog[2].ret.options.metadata.map
    /\ yamlRegexLastIndex = 0

\* a call of renderMarkdownAlerts whose exec moved the scan position of
\* alertBlockRegex to the end of the alert, and a second call
C20_AlertWitness ==
    /\ Len(callsLog) = 2
    /\ callsLog[1].op = "renderMarkdownAlerts"
    /\ callsLog[1].ret.rendered
    /\ \E k \in DOMAIN splitSlideContentIntoBlocks(callsLog[1].text) :
          /\ alertBlockRegex(splitSlideContentIntoBlocks(callsLog[1].text)[k])
          /\ alertBlockRegexExecLastIndex(splitSlideContentIntoBlocks(callsLog[1].text)[k]) > 0
    /\ callsLog[2] = callsLog[1]
    /\ alertBlockRegexLastIndex = 0

-----------------------------------------------------------------------------
(* C21: what one pass of the while loop does to the stack *)

\* a step that is one pass of the while loop with a match
C21_Pass ==
    /\ slidifyPc = "matching"
    /\ Len(slidifyMatches') = Len(slidifyMatches) + 1

\* the text between the previous match, or the start, and the match of the pass
C21_Fragment ==
    Substring(slidifyParsed.content, slidifyLastIndex,
              slidifyLastIndex' - Len(Last(slidifyMatches')))

\* the direction of the match of the pass
C21_Horizontal == slidifyWasHorizontal'

C21_NewLeaf == slidifyStack' = Append(slidifyStack, Leaf(C21_Fragment))

C21_NewGroup == slidifyStack' = Append(slidifyStack, Group(<<Leaf(C21_Fragment)>>))

C21_SameGroup ==
    /\ slidifyStack # <<>>
    /\ Last(slidifyStack).isArray
    /\ slidifyStack' =
           [slidifyStack EXCEPT
               ![Len(slidifyStack)] = Group(Append(@.elements, Leaf(C21_Fragment)))]

\* what the passes with a vertical match do
C21_VerticalPass ==
    (C21_Pass /\ ~C21_Horizontal) =>
        IF slidifyWasHorizontal THEN C21_NewGroup ELSE C21_SameGroup

\* C21: every horizontal match appends a new top-level string holding the
\* text between the previous match and this one, whatever the direction of
\* the previous match; a vertical match after a horizontal one opens a new
\* array, and a vertical match in a vertical run appends to the current array.
C21_HorizontalAlwaysOnTop ==
    [][/\ (C21_Pass /\ C21_Horizontal) => C21_NewLeaf
       /\ C21_VerticalPass]_vars

\* A horizontal match appends a top-level string when the match before it was
\* horizontal or it is the first; after a vertical match the text goes to the
\* current array as its last string, and the run ends.
C21_HorizontalEndsRun ==
    [][/\ (C21_Pass /\ C21_Horizontal) =>
              IF slidifyWasHorizontal THEN C21_NewLeaf ELSE C21_SameGroup
       /\ C21_VerticalPass]_vars

\* after a vertical and then a horizontal match: one array of two strings, and
\* the text that follows will be a top-level string
C21_Witness ==
    /\ slidifyPc = "matching"
    /\ Len(slidifyMatches) = 2
    /\ ~horizontalSeparatorRegexTest(slidifyParsed.options.separator, slidifyMatches[1])
    /\ horizontalSeparatorRegexTest(slidifyParsed.options.separator, slidifyMatches[2])
    /\ slidifyWasHorizontal
    /\ Len(slidifyStack) = 1
    /\ slidifyStack[1].isArray
    /\ Len(slidifyStack[1].elements) = 2

-----------------------------------------------------------------------------
(* C22: how a block quote without a known alert type is rendered *)

\* the lines of the block
C22_Lines == <<alertArg.first>> \o alertArg.messages

\* the '>' count of every line of the block
C22_Depths == [i \in 1..Len(C22_Lines) |-> LeadingQuotes(C22_Lines[i])]

\* renderMarkdownAlerts gave the block, whole, to renderBlockquote, and every
\* line of it opens with '>'
C22_Case ==
    /\ alertOp = "renderMarkdownAlerts"
    /\ alertRet.rendered
    /\ alertRet.nodes # <<>>
    /\ ~alertBlockRegex(AlertBlock(alertArg))
    /\ Last(splitSlideContentIntoBlocks(AlertContent(alertArg))) = AlertBlock(alertArg)
    /\ \A i \in 1..Len(C22_Lines) : C22_Depths[i] >= 1

\* the last line of the maximal run of lines of one depth that begins at line i
RECURSIVE C22_RunEnd(_, _)
C22_RunEnd(lines, i) ==
    IF i < Len(lines) /\ LeadingQuotes(lines[i + 1]) = LeadingQuotes(lines[i])
    THEN C22_RunEnd(lines, i + 1)
    ELSE i

\* the paragraph of the lines i to j, in as many blockquote elements as count
C22_Group(lines, i, j, count) ==
    createNestedBlockquote(count,
        <<Paragraph([k \in 1..(j - i + 1) |-> StripQuotes(lines[i + k - 1])])>>)

\* one paragraph per maximal run from line i on, each at the depth of its run
RECURSIVE C22_GroupPerRun(_, _)
C22_GroupPerRun(lines, i) ==
    IF i > Len(lines) THEN <<>>
    ELSE C22_Group(lines, i, C22_RunEnd(lines, i), LeadingQuotes(lines[i]))
             \o C22_GroupPerRun(lines, C22_RunEnd(lines, i) + 1)

\* the element the block was rendered to: the last one of the container
C22_Rendered == alertRet.nodes[Len(alertRet.nodes)]

C22_DivOf(nodes) == styleBlockquotes(Element("div", <<AlertClass>>, <<>>, nodes))

\* C22 as stated: the lines of a block rendered by renderBlockquote are
\* partitioned into the maximal runs of consecutive lines with the same count
\* of leading '>', and every run gives one paragraph, its lines joined by <br>,
\* in as many nested blockquote elements as the '>' count of that run.
C22_OneGroupPerDepthRun ==
    C22_Case => C22_Rendered = C22_DivOf(C22_GroupPerRun(C22_Lines, 1))

\* What the code does: the count is read once, from the first line, so the
\* lines of the block all go to one paragraph, joined by <br>, in as many
\* nested blockquote elements as the '>' count of the first line.
C22_OneGroupAtFirstDepth ==
    C22_Case =>
        C22_Rendered = C22_DivOf(C22_Group(C22_Lines, 1, Len(C22_Lines), C22_Depths[1]))

\* a block of two depths rendered as one paragraph at the depth of its first
\* line
C22_MixedDepthsInOneGroup ==
    /\ C22_Case
    /\ C22_Lines = <<<<">", " ", "a">>, <<">", ">", " ", "b">>, <<">", " ", "a">>>>
    /\ C22_Rendered =
           C22_DivOf(<<Element("blockquote", <<>>, <<>>,
                 <<Element("p", <<>>, <<>>,
                       <<TextNode(<<"a">>), Element("br", <<>>, <<>>, <<>>),
                         TextNode(<<"b">>), Element("br", <<>>, <<>>, <<>>),
                         TextNode(<<"a">>)>>)>>)>>)

-----------------------------------------------------------------------------
(* C23: the nesting of the quotes of a typed alert *)

\* renderMarkdownAlerts rendered a block of a typed first line and k >= 1
\* message lines as an alert
C23_Case ==
    /\ alertOp = "renderMarkdownAlerts"
    /\ alertRet.rendered
    /\ alertRet.nodes # <<>>
    /\ alertArg.first \in AlertTypedFirstLines
    /\ Len(alertArg.messages) >= 1
    /\ Len(Last(alertRet.nodes).children) = Len(alertArg.messages) + 1

\* the element inserted for message line i: the title comes first
C23_Quote(i) == Last(alertRet.nodes).children[i + 1]

\* the number of blockquote elements nested in one another from node inwards
RECURSIVE C23_Nesting(_)
C23_Nesting(node) ==
    IF node.tag # "blockquote" THEN 0
    ELSE IF Len(node.children) = 1 THEN 1 + C23_Nesting(node.children[1])
    ELSE 1

\* the number of '>' line i of the messages starts with
C23_OwnCount(i) == LeadingQuotes(alertArg.messages[i])

\* C23: in the typed-alert path of renderMarkdownAlerts every message line is
\* wrapped in the same number of nested blockquote elements: the count of
\* leading '>' of the first message line, 1 when that line starts with no
\* '>', whatever the count of the line itself.
C23_EveryLineAtFirstLineDepth ==
    C23_Case =>
        \A i \in 1..Len(alertArg.messages) :
            C23_Nesting(C23_Quote(i)) =
                IF C23_OwnCount(1) = 0 THEN 1 ELSE C23_OwnCount(1)

\* two message lines of different counts, '>> b' then '> a': both in two
\* blockquote elements
C23_Witness ==
    /\ C23_Case
    /\ Len(alertArg.messages) = 2
    /\ C23_OwnCount(1) = 2
    /\ C23_OwnCount(2) = 1
    /\ C23_Nesting(C23_Quote(1)) = 2
    /\ C23_Nesting(C23_Quote(2)) = 2

\* a first message line without a leading '>' and a second with two: both in
\* one blockquote element
C23_WitnessNoQuote ==
    /\ C23_Case
    /\ Len(alertArg.messages) = 2
    /\ C23_OwnCount(1) = 0
    /\ C23_OwnCount(2) = 2
    /\ C23_Nesting(C23_Quote(1)) = 1
    /\ C23_Nesting(C23_Quote(2)) = 1

-----------------------------------------------------------------------------
(* C24: where splitSlideContentIntoBlocks begins and ends a block *)

\* the lines of the content splitSlideContentIntoBlocks was called on
C24_Content == SplitLines(AlertContent(alertArg))

C24_Blank(lines, i) == Trim(lines[i]) = <<>>

C24_Quoted(lines, i) == ~C24_Blank(lines, i) /\ Head(Trim(lines[i])) = ">"

\* a block is open after line i: a line that starts with '>' came at or
\* before it with no blank line since
C24_Open(lines, i) ==
    \E k \in 1..i :
        /\ C24_Quoted(lines, k)
        /\ \A j \in k..i : ~C24_Blank(lines, j)

\* line i begins a block: it is not blank, and no block is open before it or,
\* where alert starts are told apart, it is the first line of an alert
C24_Begins(lines, i, alertStarts) ==
    /\ ~C24_Blank(lines, i)
    /\ \/ i = 1
       \/ ~C24_Open(lines, i - 1)
       \/ alertStarts /\ IsAlertStart(Trim(lines[i]))

\* the last line of the block that line i begins
C24_End(lines, i, alertStarts) ==
    CHOOSE e \in i..Len(lines) :
        /\ \A j \in (i + 1)..e :
              ~C24_Blank(lines, j) /\ ~C24_Begins(lines, j, alertStarts)
        /\ \/ e = Len(lines)
           \/ C24_Blank(lines, e + 1)
           \/ C24_Begins(lines, e + 1, alertStarts)

\* the blocks that begin at line i or after it
RECURSIVE C24_BlocksFrom(_, _, _)
C24_BlocksFrom(lines, i, alertStarts) ==
    IF i > Len(lines) THEN <<>>
    ELSE IF C24_Begins(lines, i, alertStarts)
    THEN <<Join(SubSeq(lines, i, C24_End(lines, i, alertStarts)), LF)>>
             \o C24_BlocksFrom(lines, C24_End(lines, i, alertStarts) + 1, alertStarts)
    ELSE C24_BlocksFrom(lines, i + 1, alertStarts)

C24_Case == alertOp = "splitSlideContentIntoBlocks"

\* C24 as stated: once a block is open every following non-blank line goes to
\* that same block, which is emitted only at the next blank line or at the end
\* of the input; a non-blank line that does not start with '>' is a block of
\* its own exactly when no block is open.
C24_OpenBlockTakesEveryLine ==
    C24_Case => alertBlocks = C24_BlocksFrom(C24_Content, 1, FALSE)

\* C24, amended: the same, except that a line that starts an alert ('>', any
\* white space, '[!') ends the block that is open and opens a new one.
C24_AlertStartOpensBlock ==
    C24_Case => alertBlocks = C24_BlocksFrom(C24_Content, 1, TRUE)

\* '> q' and, on the next line, an alert of two lines: two blocks
C24_Witness ==
    /\ C24_Case
    /\ alertArg.lead = <<">", " ", "q", LF>>
    /\ alertArg.first = <<">", " ", "[", "!", "N", "O", "T", "E", "]">>
    /\ alertArg.messages = <<<<"d">>>>
    /\ alertBlocks = <<<<">", " ", "q">>,
                       <<">", " ", "[", "!", "N", "O", "T", "E", "]", LF, "d">>>>

\* a paragraph before a blank line is a block of its own, and the unquoted
\* line after a quoted one goes to the open block
C24_WitnessOwnBlock ==
    /\ C24_Case
    /\ alertArg.lead = <<"t", "e", "x", "t", LF, LF>>
    /\ alertArg.first = <<">", " ", "a">>
    /\ alertArg.messages = <<<<"d">>>>
    /\ alertBlocks = <<<<"t", "e", "x", "t">>, <<">", " ", "a", LF, "d">>>>

-----------------------------------------------------------------------------
(* C25: what extractInlineMetadata removes from the fragment *)

\* where the tagged heading line of the fragment begins
C25_HeadingStart(markdown) ==
    CHOOSE p \in 1..Len(markdown) :
        /\ HeadingWithMetadataAt(markdown, p)
        /\ \A q \in 1..(p - 1) : ~HeadingWithMetadataAt(markdown, q)

\* the positions of the line s that the ::key:value tokens found from i on
\* cover, each token from its '::' to the last character of its trimmed value
RECURSIVE C25_TokenPositions(_, _)
C25_TokenPositions(s, i) ==
    IF i > Len(s) THEN {}
    ELSE LET n == RunLength(s, i + 2, WordChars)
             c == i + 2 + n
             hit == /\ LiteralAt(s, i, <<":", ":">>)
                    /\ n >= 1
                    /\ c <= Len(s) /\ s[c] = ":"
             m == RunLengthExcept(s, c + 1, {":", LF})
         IN  IF hit
             THEN (i..(c + Len(TrimEnd(SubSeq(s, c + 1, c + m)))))
                      \cup C25_TokenPositions(s, c + m + 1)
             ELSE C25_TokenPositions(s, i + 1)

\* the characters of s at the positions that are not in the set
RECURSIVE C25_Without(_, _, _)
C25_Without(s, positions, i) ==
    IF i > Len(s) THEN <<>>
    ELSE (IF i \in positions THEN <<>> ELSE <<s[i]>>) \o C25_Without(s, positions, i + 1)

\* the fragment with the tokens of its tagged heading line taken out and every
\* other character left where it is
C25_TokensRemoved(markdown, start, line) ==
    SubSeq(markdown, 1, start - 1)
        \o C25_Without(line, C25_TokenPositions(line, 1), 1)
        \o SubSeq(markdown, start + Len(line), Len(markdown))

C25_Expected ==
    C25_TokensRemoved(metaArg.markdown, C25_HeadingStart(metaArg.markdown),
                      headingWithMetadataRegex(metaArg.markdown).text)

\* extractInlineMetadata was called on a fragment with a tagged heading line
C25_Case ==
    /\ metaOp = "extractInlineMetadata"
    /\ headingWithMetadataRegex(metaArg.markdown).found

\* C25 as stated: extractInlineMetadata completes for every tag value and
\* removes from the fragment exactly the ::key:value tokens it read from the
\* tagged heading line, each token whole and nothing more; every other
\* character of that line and of the other lines stays (text such as
\* 'slide:x' without the '::' stays).
C25_ExactlyTheTokensRemoved ==
    C25_Case => (~metaRet.threw /\ metaRet.markdown = C25_Expected)

\* a token of the heading line also stands in the text before that line
C25_TokenStandsBefore ==
    \E k \in 1..Len(metadataRegex(headingWithMetadataRegex(metaArg.markdown).text, 1)) :
        IndexOfFrom(SubSeq(metaArg.markdown, 1, C25_HeadingStart(metaArg.markdown) - 1),
                    Tag(metadataRegex(headingWithMetadataRegex(metaArg.markdown).text, 1)[k].key,
                        Trim(metadataRegex(headingWithMetadataRegex(metaArg.markdown).text, 1)[k].value)),
                    1) # 0

\* What holds: when the call returns and no token of the heading line stands
\* in the text before it, exactly the tokens are removed.
C25_TokensRemovedWhenReturned ==
    (C25_Case /\ ~metaRet.threw /\ ~C25_TokenStandsBefore) =>
        metaRet.markdown = C25_Expected

\* the value 'a(b' is no pattern source: the call throws and returns nothing
C25_Thrown ==
    /\ C25_Case
    /\ metaArg.markdown = <<"#", " ", "T", " ">> \o Tag(slide, <<"a", "(", "b">>)
    /\ metaRet.threw
    /\ metaRet.markdown # C25_Expected

\* the token is removed from the paragraph before the heading, and the
\* heading keeps it
C25_RemovedElsewhere ==
    /\ C25_Case
    /\ ~metaRet.threw
    /\ metaArg.markdown =
           <<"p", " ">> \o Tag(slide, cover) \o <<LF, "#", " ", "T", " ">>
               \o Tag(slide, cover) \o <<" ">> \o Tag(toc, false)
    /\ metaRet.markdown =
           <<"p", " ", LF, "#", " ", "T", " ">> \o Tag(slide, cover) \o <<" ">>

\* the tokens are removed and the untagged 'slide:x' stays
C25_UntaggedStays ==
    /\ C25_Case
    /\ metaArg.markdown = <<"#", " ", "T", " ">> \o slide \o <<":", "x", " ">> \o Tag(slide, cover)
    /\ metaRet.markdown = <<"#", " ", "T", " ">> \o slide \o <<":", "x", " ">>

-----------------------------------------------------------------------------
(* C26: the front matter and the separators put before the headings *)

\* the options slidify works with
C26_Options == getSlidifyOptions(slidifyArgs.options, markdownConfig)

\* slidify was called with separateByHeading and got past the front matter
C26_Case ==
    /\ slidifyPc \in {"matching", "flattening", "returned"}
    /\ C26_Options.separateByHeading
    /\ ~DataSeparatorConflict(C26_Options)

\* the document as parseFrontMatter leaves it when it is called first
C26_Body ==
    parseFrontMatter(slidifyArgs.markdown, HeadingSeparatedOptions(C26_Options),
                     markdownConfig)

\* C26 as stated: with separateByHeading the front matter is removed before
\* the separators are put before the headings: no line of the front matter
\* counts as a heading, the first heading of the body gets no separator and
\* no slide is made of text that precedes the body.
C26_FrontMatterRemovedFirst ==
    C26_Case =>
        /\ slidifyParsed.content = addSlideSeparator(C26_Body.content, slideSeparator)
        /\ slidifyParsed.options = C26_Body.options

\* a line of the front matter reads as a heading
C26_HeadingInFrontMatter ==
    \E i \in 1..Len(Split(fm(slidifyArgs.markdown).frontmatter, LF)) :
        IsHeadingLine(Split(fm(slidifyArgs.markdown).frontmatter, LF)[i])

\* What holds: the two orders give the same text and options when no line of
\* the front matter reads as a heading.
C26_SameWithoutHeadingInFrontMatter ==
    (C26_Case /\ ~C26_HeadingInFrontMatter) =>
        /\ slidifyParsed.content = addSlideSeparator(C26_Body.content, slideSeparator)
        /\ slidifyParsed.options = C26_Body.options

\* a front matter of two comment lines: the separator is put between them,
\* the front matter ends there, and the second comment becomes a slide
C26_CommentBecomesSlide ==
    /\ C26_Case
    /\ slidifyPc = "returned"
    /\ slidifyArgs.markdown =
           <<"-", "-", "-", LF, "#", " ", "c", LF, "#", " ", "d", LF, "-", "-", "-",
             LF, "b">>
    /\ slidifyParsed.content = <<"#", " ", "d", LF, "-", "-", "-", LF, "b">>
    /\ Len(slidifySlides) = 2
    /\ slidifySlides[1].content = <<"#", " ", "d">>

\* a comment in the front matter and a blank line after it: the first heading
\* of the body gets a separator line, which stays in its slide
C26_SeparatorBeforeFirstHeading ==
    /\ C26_Case
    /\ slidifyPc = "returned"
    /\ C26_Body.content = <<"#", " ", "A", " ">> \o Tag(slide, cover)
    /\ slidifyParsed.content =
           <<"-", "-", "-", LF, "#", " ", "A", " ">> \o Tag(slide, cover)
    /\ Len(slidifySlides) = 1

-----------------------------------------------------------------------------
(* C27: what parseFrontMatter does to options.metadata *)

\* parseFrontMatter returned
C27_Case == fmOp = "parseFrontMatter" /\ ~fmRet.threw

\* the front matter of the document, and what yaml.load reads in it
C27_FrontMatter == fm(TrimStart(FmContent(fmArg)))

C27_Loaded == YamlLoad(C27_FrontMatter.frontmatter)

\* the document has a front matter that holds a mapping
C27_HasMapping ==
    /\ C27_FrontMatter.hasFrontmatter
    /\ C27_FrontMatter.frontmatter # <<>>
    /\ C27_Loaded.kind = "mapping"

\* the keys of the metadata the call was given
C27_GivenKeys ==
    IF fmArg.options.metadata.defined THEN DOMAIN fmArg.options.metadata.map ELSE {}

\* every key of the front matter has the value of the front matter
C27_FrontMatterKeysSet ==
    /\ fmRet.options.metadata.defined
    /\ \A k \in DOMAIN C27_Loaded.map :
          /\ k \in DOMAIN fmRet.options.metadata.map
          /\ fmRet.options.metadata.map[k] = C27_Loaded.map[k]

C27_WitnessEmpty ==
    /\ C27_Case
    /\ fmArg.block = <<"-", "-", "-", LF, "-", "-", "-", LF>>
    /\ fmArg.options.metadata = DocumentMetadata
    /\ fmRet.options.metadata = DocumentMetadata

-----------------------------------------------------------------------------
(* slidify called more than once with one options object *)

\* The options object of the caller after slidify(markdown, options):
\* getSlidifyOptions fills the object itself in (lines 178 to 186), slidify
\* sets its slideSeparator (line 231), and parseFrontMatter returns the same
\* object with the metadata of the front matter assigned (line 558). The
\* slides work on copies (line 284). An exception of the front-matter package
\* leaves the object as it was before line 249.
OptionsAfterParse(parsed, options) ==
    IF parsed.threw THEN options ELSE parsed.options

OptionsAfterSlidifyWith(markdown, options, config) ==
    IF DataSeparatorConflict(options) THEN options
    ELSE OptionsAfterParse(parseFrontMatter(HeadingSeparatedMarkdown(markdown, options),
                                            HeadingSeparatedOptions(options), config),
                           HeadingSeparatedOptions(options))

OptionsAfterSlidify(markdown, options, config) ==
    OptionsAfterSlidifyWith(markdown, getSlidifyOptions(options, config), config)

\* the documents: a paragraph, a tagged heading, two slides, and two documents
\* with a front matter
ReuseDocuments ==
    { <<"b">>,
      <<"#", " ", "A", " ">> \o Tag(slide, cover),
      <<"a", LF, "-", "-", "-", LF, "b">>,
      <<"-", "-", "-", LF>> \o slide \o <<":", " ">> \o title \o <<LF, "-", "-", "-", LF, "b">>,
      <<"-", "-", "-", LF>> \o footer \o <<":", " ", "f", LF, "-", "-", "-", LF, "#", " ", "A",
        " ">> \o Tag(slide, cover) }

\* the options objects the caller makes
ReuseOptions ==
    { NoOptions,
      [NoOptions EXCEPT !.attributes = <<"i", "d", "=", "x">>],
      [NoOptions EXCEPT !.separateByHeading = TRUE],
      [NoOptions EXCEPT !.separateByHeading = TRUE, !.hasDataSeparator = TRUE],
      [NoOptions EXCEPT !.verticalSeparator = GivenVerticalSeparator] }

MaxReuse == 2

\* one call: the object as the call got it, as the call left it, and the
\* value returned
ReuseCall(markdown, options, after, ret) ==
    [op |-> "slidify", text |-> markdown, options |-> options, after |-> after,
     ret |-> ret]

InitReuse ==
    /\ yamlRegexLastIndex = 0
    /\ alertBlockRegexLastIndex = 0
    /\ callsLog = <<>>
    /\ metaOp = "none"
    /\ metaArg = [markdown |-> <<>>, options |-> <<>>]
    /\ metaRet = NoReturn
    /\ IdleSep
    /\ markdownConfig = NoConfig
    /\ IdleFm
    /\ IdleAlert
    /\ IdleSlidify
    /\ IdleSlide
    /\ IdleProc

\* the object of a call: one the caller has just made, or the object of the
\* call before
ReuseOptionsNow ==
    IF callsLog = <<>> THEN ReuseOptions ELSE {Last(callsLog).after}

\* one call of slidify
SlidifyWithOptions ==
    /\ Len(callsLog) < MaxReuse
    /\ \E markdown \in ReuseDocuments : \E options \in ReuseOptionsNow :
          \E after \in {OptionsAfterSlidify(markdown, options, markdownConfig)} :
             \E ret \in {slidify(markdown, options, markdownConfig, 200, 0)} :
                callsLog' = Append(callsLog, ReuseCall(markdown, options, after, ret))
    /\ UNCHANGED <<yamlRegexLastIndex, alertBlockRegexLastIndex, exceptCalls>>

NextReuse == SlidifyWithOptions

SpecReuse == InitReuse /\ [][NextReuse]_vars

-----------------------------------------------------------------------------
(* C28: the options object of the caller *)

\* the document has no front matter
C28_NoFrontMatter(markdown) == ~fm(TrimStart(markdown)).hasFrontmatter

\* C28 as stated: slidify, parseFrontMatter and getSlidifyOptions leave the
\* options object of the caller as it was: after the call every field has the
\* value it had before, and a second call with the same object on a document
\* without front matter returns what a call with a new, equal object returns.
C28_OptionsImmutable ==
    /\ \A i \in 1..Len(callsLog) : callsLog[i].after = callsLog[i].options
    /\ \A i \in 2..Len(callsLog) :
          C28_NoFrontMatter(callsLog[i].text) =>
              callsLog[i].ret =
                  slidify(callsLog[i].text, callsLog[1].options, markdownConfig, 200, 0)

\* What holds: a call never changes attributes and hasDataSeparator, and a
\* second call with the same object on a document without front matter
\* returns what a new, equal object gives when the documents of the calls
\* before had no front matter either.
C28_SameAfterNoFrontMatter ==
    /\ \A i \in 1..Len(callsLog) :
          /\ callsLog[i].after.attributes = callsLog[i].options.attributes
          /\ callsLog[i].after.hasDataSeparator = callsLog[i].options.hasDataSeparator
    /\ \A i \in 2..Len(callsLog) :
          (\A j \in 1..i : C28_NoFrontMatter(callsLog[j].text)) =>
              callsLog[i].ret =
                  slidify(callsLog[i].text, callsLog[1].options, markdownConfig, 200, 0)

\* the first call was given a new object with nothing in it and a document
\* with the front matter 'slide: title'; the second call, on 'b', finds the
\* metadata in the object and returns a section of the class title, which a
\* new object does not give
C28_MetadataLeaked ==
    /\ Len(callsLog) = 2
    /\ callsLog[1].options = NoOptions
    /\ ~C28_NoFrontMatter(callsLog[1].text)
    /\ callsLog[1].after.metadata = Metadata((slide :> StringValue(title)))
    /\ callsLog[2].text = <<"b">>
    /\ callsLog[2].options.metadata = Metadata((slide :> StringValue(title)))
    /\ ~callsLog[2].ret.threw
    /\ callsLog[2].ret # slidify(<<"b">>, NoOptions, markdownConfig, 200, 0)
    /\ Contains(callsLog[2].ret.html, <<"c", "l", "a", "s", "s", "=">> \o title)

\* a call with a new object that gives nothing fills it in
C28_DefaultsWritten ==
    /\ Len(callsLog) >= 1
    /\ callsLog[1].options = NoOptions
    /\ callsLog[1].after.separator = DEFAULT_SLIDE_SEPARATOR
    /\ callsLog[1].after # callsLog[1].options

-----------------------------------------------------------------------------
(* C29: the end of the while loop of slidify *)

\* a pass of the while loop
C29_Pass ==
    /\ slidifyPc = "matching"
    /\ Len(slidifyMatches') = Len(slidifyMatches) + 1

\* C29 as stated: the loop over the separator matches ends for every text and
\* every separator and vertical-separator pattern, the patterns that match the
\* empty string included: every pass strictly advances the scan position.
C29_EveryPassAdvances ==
    [][C29_Pass => slidifyLastIndex' > slidifyLastIndex]_vars

\* What holds: a pass whose match is not empty advances the scan position,
\* and a pass whose match is empty leaves it where it is, so that the next
\* exec finds the same match again.
C29_EmptyMatchStays ==
    [][C29_Pass =>
          /\ Last(slidifyMatches') # <<>> => slidifyLastIndex' > slidifyLastIndex
          /\ Last(slidifyMatches') = <<>> =>
                /\ slidifyLastIndex' = slidifyLastIndex
                /\ separatorRegexExec(slidifyParsed.options.separator,
                                      slidifyParsed.options.verticalSeparator,
                                      slidifyParsed.content, slidifyLastIndex').found]_vars

\* the loop went round as often as the model follows it, every match was
\* empty, the scan position is where it began and the next exec matches again
C29_Stuck ==
    /\ slidifyPc = "matching"
    /\ slidifyParsed.options.verticalSeparator = AnyDashes
    /\ Len(slidifyMatches) = MaxMatches
    /\ \A k \in 1..MaxMatches : slidifyMatches[k] = <<>>
    /\ slidifyLastIndex = 0
    /\ separatorRegexExec(slidifyParsed.options.separator,
                          slidifyParsed.options.verticalSeparator,
                          slidifyParsed.content, slidifyLastIndex).found
    /\ Len(slidifyStack) = 1
    /\ Len(slidifyStack[1].elements) = MaxMatches

-----------------------------------------------------------------------------
(* C30: renderMarkdownAlerts on blocks that are no typed alert *)

C30_Case == alertOp = "renderMarkdownAlerts"

\* the blocks of the content
C30_Blocks == splitSlideContentIntoBlocks(AlertContent(alertArg))

C30_FirstLine(block) == Split(block, LF)[1]

\* the block holds a line that, trimmed, starts with '>'
C30_HasQuoteLine(block) ==
    \E i \in 1..Len(Split(block, LF)) :
        /\ Trim(Split(block, LF)[i]) # <<>>
        /\ Head(Trim(Split(block, LF)[i])) = ">"

\* the block is rendered as a typed alert
C30_Typed(block) ==
    /\ alertBlockRegex(block)
    /\ C11_HasToken(C30_FirstLine(block))
    /\ C11_Token(C30_FirstLine(block)) \in C11_Vocabulary \cup InheritedNames

\* one of the patterns that send a block to the quote rendering matches
C30_Quoted(block) ==
    alertBlockRegex(block) \/ alertTypeRegex(block).found \/ alertMessageRegex(block)

\* an untyped 'alert' container of blockquote elements
C30_PlainQuotes(node) ==
    /\ C11_Untyped(node)
    /\ node.children # <<>>
    /\ \A i \in 1..Len(node.children) : node.children[i].tag = "blockquote"

\* C30 as stated: renderMarkdownAlerts returns HTML without throwing for every
\* text, and every block that holds a '>' line and is no valid typed alert, a
\* block whose first line has white space before its '>' included, is
\* rendered as nested blockquotes in an untyped 'alert' container.
C30_NeverThrows ==
    C30_Case =>
        /\ ~alertRet.threw
        /\ alertRegex(AlertContent(alertArg)) =>
              /\ Len(alertRet.nodes) = Len(C30_Blocks)
              /\ \A i \in 1..Len(C30_Blocks) :
                    (C30_HasQuoteLine(C30_Blocks[i]) /\ ~C30_Typed(C30_Blocks[i]))
                        => C30_PlainQuotes(alertRet.nodes[i])

\* a block that goes to the quote rendering and whose first line does not
\* start with '>'
C30_IndentedFirstLine ==
    \E i \in 1..Len(C30_Blocks) :
        /\ C30_Quoted(C30_Blocks[i])
        /\ LeadingQuotes(C30_FirstLine(C30_Blocks[i])) = 0

\* What holds: the call throws exactly when the content has a line that
\* starts with '>' and a block that goes to the quote rendering has a first
\* line that does not start with '>'; when the call returns, a block that is
\* no typed alert is an untyped container of blockquotes if one of the three
\* patterns matches it, and a paragraph if none does.
C30_ThrowsOnIndentedFirstLine ==
    C30_Case =>
        /\ alertRet.threw <=> (alertRegex(AlertContent(alertArg)) /\ C30_IndentedFirstLine)
        /\ (alertRegex(AlertContent(alertArg)) /\ ~alertRet.threw) =>
              /\ Len(alertRet.nodes) = Len(C30_Blocks)
              /\ \A i \in 1..Len(C30_Blocks) :
                    ~C30_Typed(C30_Blocks[i]) =>
                        IF C30_Quoted(C30_Blocks[i])
                        THEN C30_PlainQuotes(alertRet.nodes[i])
                        ELSE alertRet.nodes[i].tag = "p"

\* '  > [!NOTE]' and then '> a': the call throws
C30_Thrown ==
    /\ C30_Case
    /\ alertArg.lead = <<>>
    /\ alertArg.first = <<" ", " ", ">", " ", "[", "!", "N", "O", "T", "E", "]">>
    /\ alertArg.messages = <<<<">", " ", "a">>>>
    /\ C30_Blocks = <<AlertBlock(alertArg)>>
    /\ alertRet.threw
    /\ alertRet.nodes = <<>>

\* '  > [!NOTE]' and then '>': a block with '>' lines that no pattern matches
\* is rendered as a paragraph
C30_QuoteLinesInParagraph ==
    /\ C30_Case
    /\ ~alertRet.threw
    /\ alertRet.rendered
    /\ Len(C30_Blocks) = 1
    /\ C30_HasQuoteLine(C30_Blocks[1])
    /\ alertRet.nodes[1].tag = "p"

====
